---- MODULE Spec2Model ----
(***************************************************************************)
(* Model of the agent executor of elysia (src/elysia/api/agent_executor.py) *)
(* and of the capabilities it dispatches to (src/elysia/api/custom_tools.py)*)
(* and, in the second part, of the message bus and the orchestrator        *)
(* (src/elysia/api/multi_agent.py).  Spec is the executor, BusSpec the bus, *)
(* ToolSpec the example capabilities called on their own, LoopSpec the     *)
(* runs of the executor under fair scheduling, WorkflowSpec a workflow of  *)
(* coordinated tasks on the bus.                                           *)
(*                                                                         *)
(* One AgentExecutor runs on one asyncio event loop.  A call of            *)
(* execute_agent is a coroutine; it can only be interleaved with other     *)
(* coroutines and with cancel_execution where it awaits.  Every action     *)
(* below is the code between two such suspension points.  asyncio.wait_for  *)
(* runs _execute_agent_internal as a task of its own, so a run is suspended *)
(* once between its registration and its first step, and afterwards only   *)
(* inside a capability that awaits.  The deadline of wait_for is observed  *)
(* at these suspension points; on expiry wait_for cancels the inner task,  *)
(* and CancelledError, being no Exception, passes the handler of the       *)
(* dispatch loop (a capability is taken not to swallow it).                *)
(*                                                                         *)
(* Python values: a dict is the set of its <<key, value>> pairs, a list is *)
(* a sequence, Optional[datetime] is the empty or the one-element sequence,*)
(* datetime.now() and time.time() are the clock `now` in whole seconds.    *)
(* The timestamp of a step of the step log is left out of the step record. *)
(***************************************************************************)
EXTENDS Integers, Sequences, FiniteSets, TLC

\* Bounds of the model.
MaxRuns == 2
MaxClock == 1

VARIABLES
    now,                \* the clock, in whole seconds
    ctx,                \* the ExecutionContext objects created so far, by creation number
    coro,               \* the execute_agent coroutine that owns each context
    active_executions,  \* AgentExecutor.active_executions: pairs <<execution_id, context>>
    execution_history,  \* AgentExecutor.execution_history: list of contexts
    invoked             \* per context: the capabilities the dispatch loop called, in
                        \* order, each with what its event sequence turned out to be

vars == <<now, ctx, coro, active_executions, execution_history, invoked>>

---------------------------------------------------------------------------
\* Python dicts as sets of <<key, value>> pairs.

Keys(d) == {p[1] : p \in d}

Has(d, k) == k \in Keys(d)

Get(d, k) == (CHOOSE p \in d : p[1] = k)[2]

Put(d, k, v) == {p \in d : p[1] # k} \cup {<<k, v>>}

Del(d, k) == {p \in d : p[1] # k}

\* str(x) of a Python value that the code stores where an object is stored too.
Str(s) == [str |-> s]

\* Python None where an object is expected.
NoneObj == [none |-> TRUE]

---------------------------------------------------------------------------
\* The registry (AgentManager.agents): agent name -> declared capabilities.
\* The executor never changes it.

agents ==
    [ empty  |-> << >>,
      flaky  |-> <<"Broken", "FlakyA", "FlakyB">>,
      hidden |-> <<"FlakyA", "HiddenStoreConditionalTool", "HiddenStoreWriter">> ]

NoAgent == [name |-> "", tools |-> << >>, found |-> FALSE]

\* A bug of the registry lookup: an unknown name yields a fresh, empty agent.
get_agent_default(name) ==
    IF name \in DOMAIN agents
    THEN [name |-> name, tools |-> agents[name], found |-> TRUE]
    ELSE [name |-> name, tools |-> << >>, found |-> TRUE]

get_agent(name) ==
    IF name \in DOMAIN agents
    THEN [name |-> name, tools |-> agents[name], found |-> TRUE]
    ELSE NoAgent

\* The tasks a caller passes.  task.get("inputs", {}) is the field inputs; a task
\* that is no dict (None) makes task.get raise inside _execute_agent_internal.
NoneTask == [is_dict |-> FALSE, inputs |-> {}]

EmptyTask == [is_dict |-> TRUE, inputs |-> {}]

StoreTask ==
    [is_dict |-> TRUE, inputs |-> {<<"key", Str("unlock")>>, <<"value", Str("v1")>>}]

\* The calls of execute_agent a caller makes: <<agent_name, task>>.
Requests ==
    { <<"ghost", EmptyTask>>,
      <<"empty", EmptyTask>>,
      <<"flaky", EmptyTask>>,
      <<"flaky", NoneTask>>,
      <<"hidden", EmptyTask>>,
      <<"hidden", StoreTask>> }

\* timeout_seconds of the calls.
TimeoutChoices == {1}

---------------------------------------------------------------------------
\* Events and capabilities.

Status == [kind |-> "Status", objects |-> << >>]

Error == [kind |-> "Error", objects |-> << >>]

Result(objects) == [kind |-> "Result", objects |-> objects]

\* What one invocation of a capability does: the events it yields, how the
\* sequence ends, and what it wrote to the hidden environment meanwhile.
Trace(events, end, writes) == [events |-> events, end |-> end, writes |-> writes]

\* A capability whose constructor raises.
CtorRaises(tool) == tool = "Broken"

\* A capability that awaits while it runs: the run is suspended inside it.
Suspends(tool) == tool \in {"FlakyA", "FlakyB"}

\* Any capability written against the contract: what the dispatch loop may get
\* back from the `async for` once the capability is resumed.
FlakyTraces(tool) ==
    { Trace(<<Status, Result(<<[tool |-> tool, v |-> 1], [tool |-> tool, v |-> 2]>>),
              Result(<<[tool |-> tool, v |-> 3]>>)>>, "stop", {}),
      Trace(<<Result(<< >>)>>, "stop", {}),
      Trace(<<Status, Error>>, "stop", {}),
      Trace(<<Result(<<[tool |-> tool, v |-> 1]>>)>>, "raise", {}),
      Trace(<< >>, "raise", {}),
      Trace(<<Status>>, "stop", {<<"unlock", Str("v0")>>}) }

HiddenStoreWriter(inputs, hidden) ==
    IF ~Has(inputs, "key") \/ ~Has(inputs, "value")
    THEN Trace(<< >>, "raise", {})
    ELSE Trace(<<Status,
                 Result(<<[stored_key |-> Get(inputs, "key"),
                           stored_value |-> Get(inputs, "value")]>>)>>,
               "stop", {<<Get(inputs, "key").str, Get(inputs, "value")>>})

\* dict.get(k): the value under k, None when there is none.
get(d, k) == IF Has(d, k) THEN Get(d, k) ELSE NoneObj

HiddenStoreConditionalTool(inputs, hidden) ==
    LET value == get(hidden, "unlock")
    IN  IF value = NoneObj
        THEN Trace(<<Error>>, "stop", {})
        ELSE Trace(<<Status, Result(<<[unlock |-> value]>>)>>, "stop", {})

\* The one trace of a capability that never awaits.
SyncTrace(tool, inputs, hidden) ==
    IF tool = "HiddenStoreWriter" THEN HiddenStoreWriter(inputs, hidden)
    ELSE HiddenStoreConditionalTool(inputs, hidden)

\* A bug of the availability predicate: it tests the value, not the key.
is_tool_available_by_value(tool, hidden) ==
    IF tool = "HiddenStoreConditionalTool" THEN get(hidden, "unlock") # NoneObj
    ELSE TRUE

is_tool_available(tool, hidden) ==
    IF tool = "HiddenStoreConditionalTool" THEN Has(hidden, "unlock") ELSE TRUE

---------------------------------------------------------------------------
\* ExecutionContext.

\* A bug of the context: the hidden environment is shared between the
\* contexts (a new context starts with what the latest one holds).
ExecutionContext_shared(agent_name, t, tsk) ==
    [ agent_name |-> agent_name,
      task |-> tsk,
      start_time |-> t,
      end_time |-> << >>,
      steps |-> << >>,
      environment |-> << >>,
      hidden_environment |->
          IF ctx = << >> THEN {} ELSE ctx[Len(ctx)].hidden_environment,
      execution_id |-> <<agent_name, t>>,
      object |-> Len(ctx) + 1 ]

\* ExecutionContext.__init__; `object` numbers the context objects in the
\* order made.
ExecutionContext(agent_name, t, tsk) ==
    [ agent_name |-> agent_name,
      task |-> tsk,
      start_time |-> t,
      end_time |-> << >>,
      steps |-> << >>,
      environment |-> << >>,
      hidden_environment |-> {},
      execution_id |-> <<agent_name, t>>,
      object |-> Len(ctx) + 1 ]

add_step(c, step_type, data) ==
    [c EXCEPT !.steps = Append(@, [type |-> step_type, data |-> data])]

complete(c, t, success, result) ==
    add_step([c EXCEPT !.end_time = <<t>>], "completion",
             [success |-> success, result |-> result, duration |-> t - c.start_time])

---------------------------------------------------------------------------
\* AgentExecutor._execute_with_tools: the dispatch loop, from the capability at
\* position i of agent.tools up to the next await or to its return.
\* The result names where the run now is: suspended in a capability (pc "tool")
\* or returned from the loop (pc "return", with the value returned).

ToolList(c) == get_agent(c.agent_name).tools

\* A bug of the loop's end: falling off the loop without a return (None).
NoToolNone == NoneObj

NoToolPayload == [error |-> "No suitable tool found or all tools failed"]

\* The events of a finished sequence that are Results, in the order yielded.
Results(events) == SelectSeq(events, LAMBDA e : e.kind = "Result")

\* A bug of the payload choice: the last object of the Result instead of the first.
result_value_last(result) ==
    IF result.objects # << >> THEN result.objects[Len(result.objects)]
    ELSE [message |-> "No result"]

\* result.objects[0] if result.objects else {"message": "No result"}
result_value(result) ==
    IF result.objects # << >> THEN result.objects[1] ELSE [message |-> "No result"]

\* What the tool_result step logs: result.objects[0] if result.objects else None
result_logged(result) ==
    IF result.objects # << >> THEN result.objects[1] ELSE NoneObj

\* The sequence of a capability that was called and has not ended yet.
Pending == Trace(<< >>, "pending", {})

\* A bug of the loop: the capability objects are made once and kept, so that
\* every run calls the same object at position i.
Invocation_on_kept_instance(c, tool, i) ==
    [ tool |-> tool, index |-> i,
      available |-> is_tool_available(tool, c.hidden_environment),
      instance |-> <<0, i>>, trace |-> Pending ]

\* One call of a capability by the loop: which one, on which object (the one
\* made by `tool_class()` in iteration i of the loop of context c), whether its
\* availability predicate held when it was called, and (once known) what it
\* yielded.
Invocation(c, tool, i) ==
    [ tool |-> tool, index |-> i,
      available |-> is_tool_available(tool, c.hidden_environment),
      instance |-> <<c.object, i>>, trace |-> Pending ]

RECURSIVE execute_with_tools(_, _, _)
RECURSIVE process_results(_, _, _, _)

\* A bug of the loop: the events are inspected as they are yielded, so that a
\* Result is honoured although the capability raises after it.
process_results_eager(c, inv, i, trace) ==
    LET tool == ToolList(c)[i]
        c1 == [c EXCEPT !.hidden_environment = (@ \ {p \in @ : p[1] \in Keys(trace.writes)})
                                                \cup trace.writes]
        inv2 == [inv EXCEPT ![Len(inv)].trace = trace]
    IN  IF Results(trace.events) # << >>
        THEN LET result == Results(trace.events)[1]
             IN  [ c |-> add_step(c1, "tool_result",
                                  [tool |-> tool, result |-> result_logged(result)]),
                   inv |-> inv2, pc |-> "return", idx |-> i,
                   value |-> result_value(result) ]
        ELSE IF trace.end = "raise"
        THEN execute_with_tools(
                 add_step(c1, "tool_error", [tool |-> tool, error |-> Str("raised")]),
                 inv2, i + 1)
        ELSE execute_with_tools(c1, inv2, i + 1)

\* After `async for` over the capability at position i ended as `trace` says.
process_results(c, inv, i, trace) ==
    LET tool == ToolList(c)[i]
        c1 == [c EXCEPT !.hidden_environment = (@ \ {p \in @ : p[1] \in Keys(trace.writes)})
                                                \cup trace.writes]
        inv2 == [inv EXCEPT ![Len(inv)].trace = trace]
    IN  IF trace.end = "raise"
        THEN execute_with_tools(
                 add_step(c1, "tool_error", [tool |-> tool, error |-> Str("raised")]),
                 inv2, i + 1)
        ELSE IF Results(trace.events) # << >>
        THEN LET result == Results(trace.events)[1]
             IN  [ c |-> add_step(c1, "tool_result",
                                  [tool |-> tool, result |-> result_logged(result)]),
                   inv |-> inv2, pc |-> "return", idx |-> i,
                   value |-> result_value(result) ]
        ELSE execute_with_tools(c1, inv2, i + 1)

execute_with_tools(c, inv, i) ==
    IF i > Len(ToolList(c))
    THEN [c |-> c, inv |-> inv, pc |-> "return", idx |-> i, value |-> NoToolPayload]
    ELSE LET tool == ToolList(c)[i]
         IN  IF CtorRaises(tool)
             THEN execute_with_tools(
                      add_step(c, "tool_error", [tool |-> tool, error |-> Str("ctor")]),
                      inv, i + 1)
             ELSE LET c1 == add_step(c, "tool_execution",
                                     [tool |-> tool, inputs |-> c.task.inputs])
                      inv1 == Append(inv, Invocation(c, tool, i))
                  IN  IF Suspends(tool)
                      THEN [c |-> c1, inv |-> inv1, pc |-> "tool", idx |-> i,
                            value |-> NoneObj]
                      ELSE process_results(c1, inv1, i,
                               SyncTrace(tool, c.task.inputs, c.hidden_environment))

---------------------------------------------------------------------------
\* What execute_agent hands back to its caller.

NoRet == [status |-> "none"]

completed_payload(c, result) ==
    [ execution_id |-> c.execution_id, status |-> "completed", result |-> result,
      steps |-> Len(c.steps),
      duration |-> IF c.end_time # << >> THEN c.end_time[1] - c.start_time ELSE 0 ]

\* A bug of the handlers' order: `except Exception` placed before
\* `except asyncio.TimeoutError` reports a timeout as an error.
timeout_payload_as_error(c, timeout_seconds) ==
    [ execution_id |-> c.execution_id, status |-> "error",
      error |-> Str("TimeoutError"), steps |-> Len(c.steps) ]

timeout_payload(c, timeout_seconds) ==
    [ execution_id |-> c.execution_id, status |-> "timeout",
      error |-> [exceeded |-> timeout_seconds], steps |-> Len(c.steps) ]

error_payload(c, e) ==
    [ execution_id |-> c.execution_id, status |-> "error", error |-> e,
      steps |-> Len(c.steps) ]

Raised(exc) == [status |-> "raised", exc |-> exc]

Runs == 1..Len(ctx)

Ids == {<<a, t>> : a \in DOMAIN agents, t \in 0..MaxClock}

---------------------------------------------------------------------------
Init ==
    /\ now = 0
    /\ ctx = << >>
    /\ coro = << >>
    /\ active_executions = {}
    /\ execution_history = << >>
    /\ invoked = << >>

\* A second of the clock passes.
Tick ==
    /\ now < MaxClock
    /\ now' = now + 1
    /\ UNCHANGED <<ctx, coro, active_executions, execution_history, invoked>>

\* execute_agent raises ValueError(f"Agent '{agent_name}' not found"), lines 61-63.
execute_agent_raises(agent_name) == ~get_agent(agent_name).found

\* execute_agent, lines 60-67: up to the first await (asyncio.wait_for).
execute_agent(agent_name, tsk, timeout_seconds) ==
    IF execute_agent_raises(agent_name)
    THEN UNCHANGED vars
    ELSE LET context == ExecutionContext(agent_name, now, tsk)
         IN  /\ Len(ctx) < MaxRuns
             /\ ctx' = Append(ctx, context)
             /\ active_executions' =
                    Put(active_executions, context.execution_id, Len(ctx) + 1)
             /\ coro' = Append(coro, [pc |-> "created", idx |-> 0,
                                      timeout_seconds |-> timeout_seconds,
                                      ret |-> NoRet])
             /\ invoked' = Append(invoked, << >>)
             /\ UNCHANGED <<now, execution_history>>

\* The return (or raise) of execute_agent with its finally block, lines 107-111.
Finish(r, c, payload) ==
    /\ ctx' = [ctx EXCEPT ![r] = c]
    /\ coro' = [coro EXCEPT ![r] = [@ EXCEPT !.pc = "done", !.ret = payload]]
    /\ active_executions' = Del(active_executions, c.execution_id)
    /\ execution_history' = Append(execution_history, r)

\* The run goes on from the dispatch loop's state `res`: it stays suspended in a
\* capability, or _execute_agent_internal returns and execute_agent completes.
Continue(r, res) ==
    /\ invoked' = [invoked EXCEPT ![r] = res.inv]
    /\ IF res.pc = "tool"
       THEN /\ ctx' = [ctx EXCEPT ![r] = res.c]
            /\ coro' = [coro EXCEPT ![r] = [@ EXCEPT !.pc = "tool", !.idx = res.idx]]
            /\ UNCHANGED <<active_executions, execution_history>>
       ELSE LET c1 == add_step(res.c, "result", [result |-> res.value])
                c2 == complete(c1, now, TRUE, res.value)
            IN  Finish(r, c2, completed_payload(c2, res.value))

\* _execute_agent_internal starts inside wait_for: lines 118-127.
execute_agent_internal(r) ==
    /\ coro[r].pc = "created"
    /\ LET c0 == add_step(ctx[r], "start", [task |-> ctx[r].task])
       IN  IF ~ctx[r].task.is_dict
           THEN LET c2 == complete(c0, now, FALSE, Str("AttributeError"))
                IN  /\ Finish(r, c2, error_payload(c2, Str("AttributeError")))
                    /\ UNCHANGED invoked
           ELSE Continue(r, execute_with_tools(c0, invoked[r], 1))
    /\ UNCHANGED now

\* The capability the run is suspended in is resumed and its sequence ends.
tool_resumes(r) ==
    /\ coro[r].pc = "tool"
    /\ \E trace \in FlakyTraces(ToolList(ctx[r])[coro[r].idx]) :
           Continue(r, process_results(ctx[r], invoked[r], coro[r].idx, trace))
    /\ UNCHANGED now

\* A bug of the timeout path: the hidden environment is rolled back to what it
\* was when the run started.
wait_for_timeout_rollback(r) ==
    /\ coro[r].pc \in {"created", "tool"}
    /\ now >= ctx[r].start_time + coro[r].timeout_seconds
    /\ LET c2 == complete([ctx[r] EXCEPT !.hidden_environment = {}], now, FALSE,
                          Str("timeout"))
       IN  Finish(r, c2, timeout_payload(c2, coro[r].timeout_seconds))
    /\ UNCHANGED <<now, invoked>>

\* asyncio.wait_for gives up: lines 89-96.
wait_for_timeout(r) ==
    /\ coro[r].pc \in {"created", "tool"}
    /\ now >= ctx[r].start_time + coro[r].timeout_seconds
    /\ LET c2 == complete(ctx[r], now, FALSE, Str("timeout"))
       IN  Finish(r, c2, timeout_payload(c2, coro[r].timeout_seconds))
    /\ UNCHANGED <<now, invoked>>

\* The task awaiting execute_agent is cancelled by its owner: CancelledError is
\* no Exception, so only the finally block runs.
task_cancelled(r) ==
    /\ coro[r].pc \in {"created", "tool"}
    /\ Finish(r, ctx[r], Raised("CancelledError"))
    /\ UNCHANGED <<now, invoked>>

\* What cancel_execution returns, lines 227, 231, 232.
cancel_execution_returns(execution_id) == Has(active_executions, execution_id)

\* A bug of the cancellation: the completion is recorded but the entry stays in
\* the active-run table.
cancel_execution_keeps_entry(execution_id) ==
    IF cancel_execution_returns(execution_id)
    THEN LET r == Get(active_executions, execution_id)
         IN  /\ ctx' = [ctx EXCEPT ![r] = complete(@, now, FALSE, Str("cancelled"))]
             /\ UNCHANGED <<now, coro, active_executions, execution_history, invoked>>
    ELSE UNCHANGED vars

\* A bug of the cancellation: the membership test is left out, so an id that is
\* not in the table still completes the contexts that carry it.
cancel_execution_unguarded(execution_id) ==
    /\ ctx' = [r \in DOMAIN ctx |->
                  IF ctx[r].execution_id = execution_id
                  THEN complete(ctx[r], now, FALSE, Str("cancelled"))
                  ELSE ctx[r]]
    /\ active_executions' = Del(active_executions, execution_id)
    /\ UNCHANGED <<now, coro, execution_history, invoked>>

\* cancel_execution, lines 225-232.
cancel_execution(execution_id) ==
    IF cancel_execution_returns(execution_id)
    THEN LET r == Get(active_executions, execution_id)
         IN  /\ ctx' = [ctx EXCEPT ![r] = complete(@, now, FALSE, Str("cancelled"))]
             /\ active_executions' = Del(active_executions, execution_id)
             /\ UNCHANGED <<now, coro, execution_history, invoked>>
    ELSE UNCHANGED vars

---------------------------------------------------------------------------
(***************************************************************************)
(* The message bus and the orchestrator (src/elysia/api/multi_agent.py).   *)
(*                                                                         *)
(* A MultiAgentOrchestrator runs on one event loop too.  Its coroutines    *)
(* are the consumption loops (_process_agent_messages, one per call of     *)
(* start_agent), a call of execute_coordinated_task, and the callers of    *)
(* the API.  A loop is suspended where it reads the queue and where it     *)
(* awaits the run of its agent; the coordinated task is suspended where it *)
(* reads the queue; start_agent, stop_agent, send_message (the queue is    *)
(* unbounded, so put never waits), broadcast_message and shutdown never    *)
(* suspend.  The run that handles a message is the executor above: here it *)
(* is only known to return a payload after some time.                      *)
(*                                                                         *)
(* The bus clock is in seconds and advances in steps of fifteen, so that   *)
(* the thirty seconds of the coordinated task's queue read are two steps   *)
(* and the one second of a loop's poll is less than a step: a waiting      *)
(* reader takes a queued message, a loop whose agent was stopped leaves,   *)
(* and an expired read of the coordinated task gives up, before the clock  *)
(* advances.                                                               *)
(***************************************************************************)

\* Bounds of the bus.
MaxMessages == 3
MaxLoops == 2
MaxBusClock == 45

\* `timeout = 30  # seconds` of execute_coordinated_task, line 116.
timeout == 30

VARIABLES
    bus_now,               \* the clock of the bus, in seconds
    message_queue,         \* MultiAgentOrchestrator.message_queue
    active_agents,         \* the keys of MultiAgentOrchestrator.active_agents, in
                           \* the order of the dict
    conversation_history,  \* MultiAgentOrchestrator.conversation_history
    loops,                 \* the live _process_agent_messages tasks
    coordination,          \* the call of execute_coordinated_task
    delivery,              \* per Message object: what became of it
    shut_down              \* shutdown has returned and the caller has neither
                           \* started an agent nor sent a message since

bus == <<bus_now, message_queue, active_agents, conversation_history, loops,
         coordination, delivery, shut_down>>

InSeq(seq, x) == \E k \in 1..Len(seq) : seq[k] = x

Without(seq, x) == SelectSeq(seq, LAMBDA y : y # x)

RemoveAt(seq, k) == SubSeq(seq, 1, k - 1) \o SubSeq(seq, k + 1, Len(seq))

\* Message.__init__; `object` numbers the Message objects in the order made.
Message(sender, recipient, content, message_type, metadata, t, n) ==
    [ sender |-> sender, recipient |-> recipient, content |-> content,
      message_type |-> message_type, metadata |-> metadata, timestamp |-> t,
      object |-> n ]

\* Message.id
message_id(m) == <<m.sender, m.recipient, m.timestamp>>

\* The messages callers of send_message make: <<sender, recipient>>.
CallerMessages == { <<"hidden", "empty">>, <<"empty", "hidden">> }

\* The senders callers of broadcast_message name.
BroadcastSenders == { "empty", "hidden" }

\* The names callers of start_agent and stop_agent pass.
BusAgents == { "empty", "ghost" }

\* The calls of execute_coordinated_task:
\* <<task_description, participating_agents, coordinator_agent>>.
CoordinationRequests ==
    { <<"task", <<"empty", "flaky">>, "hidden">>,
      <<"task", <<"flaky", "ghost">>, "flaky">> }

\* A consumption loop: where it is, the message it is handling, and whether
\* stop_agent was called for its agent since it was started.
Loop(agent_name) ==
    [agent_name |-> agent_name, pc |-> "get", message |-> NoneObj, stopped |-> FALSE]

\* The mutable objects of the orchestrator as one value.
Bus ==
    [ message_queue |-> message_queue, active_agents |-> active_agents,
      conversation_history |-> conversation_history, loops |-> loops,
      delivery |-> delivery ]

Becomes(b) ==
    /\ message_queue' = b.message_queue
    /\ active_agents' = b.active_agents
    /\ conversation_history' = b.conversation_history
    /\ loops' = b.loops
    /\ delivery' = b.delivery

\* What start_agent returns, lines 52-54 and 61.
start_agent_returns(agent_name) == get_agent(agent_name).found

\* start_agent, lines 50-61, as a change of the orchestrator.
Started(b, agent_name) ==
    IF ~start_agent_returns(agent_name) THEN b
    ELSE [b EXCEPT !.active_agents =
                       IF InSeq(@, agent_name) THEN @ ELSE Append(@, agent_name),
                   !.loops = Append(@, Loop(agent_name))]

\* What stop_agent returns, lines 65, 68, 69.
stop_agent_returns(b, agent_name) == InSeq(b.active_agents, agent_name)

\* A bug of stop_agent: the agent stays in the pool.
Stopped_keeps_agent(b, agent_name) == b

\* stop_agent, lines 63-69, as a change of the orchestrator.
Stopped(b, agent_name) ==
    IF ~stop_agent_returns(b, agent_name) THEN b
    ELSE [b EXCEPT !.active_agents = Without(@, agent_name),
                   !.loops = [k \in DOMAIN @ |->
                                 IF @[k].agent_name = agent_name
                                 THEN [@[k] EXCEPT !.stopped = TRUE] ELSE @[k]],
                   !.delivery = [k \in DOMAIN @ |->
                                    IF /\ b.conversation_history[k].recipient = agent_name
                                       /\ @[k] = "queued"
                                    THEN "waiting" ELSE @[k]]]

\* A bug of send_message: the message is queued but not recorded.
Sent_unrecorded(b, message) ==
    [b EXCEPT !.message_queue = Append(@, message)]

\* send_message, lines 71-75, as a change of the orchestrator.
Sent(b, message) ==
    [b EXCEPT !.message_queue = Append(@, message),
              !.conversation_history = Append(@, message),
              !.delivery = Append(@, IF InSeq(b.active_agents, message.recipient)
                                     THEN "queued" ELSE "waiting")]

\* A Message made now; it is the next object.
NewMessage(b, sender, recipient, content, message_type, metadata) ==
    Message(sender, recipient, content, message_type, metadata, bus_now,
            Len(b.conversation_history) + 1)

RECURSIVE StartedAll(_, _)
StartedAll(b, names) ==
    IF names = << >> THEN b ELSE StartedAll(Started(b, Head(names)), Tail(names))

RECURSIVE StoppedAll(_, _)
StoppedAll(b, names) ==
    IF names = << >> THEN b ELSE StoppedAll(Stopped(b, Head(names)), Tail(names))

\* A bug of broadcast_message: the test `agent_name != sender` is left out.
RECURSIVE Broadcast_to_everyone(_, _, _)
Broadcast_to_everyone(b, sender, names) ==
    IF names = << >> THEN b
    ELSE Broadcast_to_everyone(
             Sent(b, NewMessage(b, sender, Head(names), Str("broadcast"), "text",
                                NoneObj)),
             sender, Tail(names))

\* broadcast_message, lines 81-86: one message per key of active_agents.
RECURSIVE Broadcast(_, _, _)
Broadcast(b, sender, names) ==
    IF names = << >> THEN b
    ELSE Broadcast(
             IF Head(names) # sender
             THEN Sent(b, NewMessage(b, sender, Head(names), Str("broadcast"), "text",
                                  NoneObj))
             ELSE b,
             sender, Tail(names))

\* What broadcast_message returns, line 87.
broadcast_message_returns(sender) == Len(Without(active_agents, sender))

\* The fates of a Message object: on the queue with its recipient in the active
\* pool ever since it was sent ("queued") or not ("waiting"); taken off the
\* queue by a loop of its recipient, which triggers a run ("handled") or finds
\* its agent stopped ("unhandled"); collected by the coordinated task; taken
\* off by a reader that drops it, with its recipient in the pool ever since it
\* was sent ("lost") or not ("discarded"); removed by shutdown ("cleared").
Dropped(fate) == IF fate = "queued" THEN "lost" ELSE "discarded"

\* A bug of the queue read: a reader that drops the message it took puts it
\* back at the end of the queue.
Taken_puts_back(b, fate) ==
    [b EXCEPT !.message_queue =
                  IF fate \in {"lost", "discarded"} THEN Append(Tail(@), Head(@))
                  ELSE Tail(@),
              !.delivery[Head(b.message_queue).object] = fate]

\* The head of the queue is taken off and its fate is recorded.
Taken(b, fate) ==
    [b EXCEPT !.message_queue = Tail(@),
              !.delivery[Head(b.message_queue).object] = fate]

\* `while agent_name in self.active_agents`, line 145: the loop at position l
\* goes on reading, or its task ends.
LoopChecked(b, l) ==
    IF InSeq(b.active_agents, b.loops[l].agent_name)
    THEN [b EXCEPT !.loops[l].pc = "get", !.loops[l].message = NoneObj]
    ELSE [b EXCEPT !.loops = RemoveAt(@, l)]

\* The call of execute_coordinated_task: its arguments, its local variables,
\* and when it and its current queue read began.
NoCoordination ==
    [ pc |-> "idle", task |-> "", participating_agents |-> << >>,
      coordinator_agent |-> "", responses |-> << >>, started |-> 0,
      get_started |-> 0, timed_out |-> FALSE, completed_at |-> 0 ]

\* A bug of the barrier test: any message addressed to the coordinator counts.
Matches_any_sender(c, message) == message.recipient = c.coordinator_agent

\* lines 123-126
Matches(c, message) ==
    /\ InSeq(c.participating_agents, message.sender)
    /\ message.recipient = c.coordinator_agent

---------------------------------------------------------------------------
BusInit ==
    /\ bus_now = 0
    /\ message_queue = << >>
    /\ active_agents = << >>
    /\ conversation_history = << >>
    /\ loops = << >>
    /\ coordination = NoCoordination
    /\ delivery = << >>
    /\ shut_down = FALSE

\* Somebody is suspended in message_queue.get().
ReaderWaits ==
    \/ coordination.pc = "wait"
    \/ \E l \in 1..Len(loops) : loops[l].pc = "get"

\* Fifteen seconds pass: nothing is left that happens within the second of a
\* poll or at the expiry of a read.  Only the coordinated task
\* reads the clock, so the clock is let run only while the task waits.
BusTick ==
    /\ bus_now < MaxBusClock
    /\ coordination.pc = "wait"
    /\ ~(message_queue # << >> /\ ReaderWaits)
    /\ \A l \in 1..Len(loops) :
           loops[l].pc = "get" => InSeq(active_agents, loops[l].agent_name)
    /\ ~(coordination.pc = "wait" /\ bus_now >= coordination.get_started + timeout)
    /\ bus_now' = bus_now + 15
    /\ UNCHANGED <<message_queue, active_agents, conversation_history, loops,
                   coordination, delivery, shut_down>>

\* start_agent, lines 50-61.
start_agent(agent_name) ==
    IF ~start_agent_returns(agent_name)
    THEN UNCHANGED bus
    ELSE /\ Len(loops) < MaxLoops
         /\ Becomes(Started(Bus, agent_name))
         /\ shut_down' = FALSE
         /\ UNCHANGED <<bus_now, coordination>>

\* stop_agent, lines 63-69.
stop_agent(agent_name) ==
    /\ Becomes(Stopped(Bus, agent_name))
    /\ UNCHANGED <<bus_now, coordination, shut_down>>

\* send_message, lines 71-75.
send_message(message) ==
    /\ Len(conversation_history) < MaxMessages
    /\ Becomes(Sent(Bus, message))
    /\ shut_down' = FALSE
    /\ UNCHANGED <<bus_now, coordination>>

\* broadcast_message, lines 77-87.
broadcast_message(sender) ==
    /\ Len(conversation_history) + broadcast_message_returns(sender) <= MaxMessages
    /\ Becomes(Broadcast(Bus, sender, active_agents))
    /\ shut_down' = (shut_down /\ broadcast_message_returns(sender) = 0)
    /\ UNCHANGED <<bus_now, coordination>>

\* lines 220-224: the queue is emptied.
RECURSIVE Cleared(_)
Cleared(b) ==
    IF b.message_queue = << >> THEN b
    ELSE Cleared(Taken(b, "cleared"))

\* shutdown, lines 215-224.
shutdown ==
    /\ Becomes(Cleared(StoppedAll(Bus, active_agents)))
    /\ shut_down' = TRUE
    /\ UNCHANGED <<bus_now, coordination>>

\* _process_agent_messages, lines 145-149, with _handle_agent_message up to its
\* await, lines 157-172: the loop's read of the queue returns a message.
process_agent_messages(l) ==
    /\ loops[l].pc = "get"
    /\ message_queue # << >>
    /\ LET message == Head(message_queue)
           agent_name == loops[l].agent_name
       IN  IF message.recipient # agent_name
           THEN Becomes(LoopChecked(
                    Taken(Bus, Dropped(delivery[message.object])), l))
           ELSE IF ~InSeq(active_agents, agent_name)
           THEN Becomes(LoopChecked(
                    Taken(Bus, "unhandled"), l))
           ELSE Becomes([Taken(Bus, "handled")
                             EXCEPT !.loops[l].pc = "handling",
                                    !.loops[l].message = message])
    /\ UNCHANGED <<bus_now, coordination, shut_down>>

\* A bug of the reply: it is addressed to the agent that handled the message.
response_message_to_agent(b, agent_name, message) ==
    NewMessage(b, agent_name, agent_name, Str("result"), "response",
               [original_message_id |-> message_id(message)])

\* _handle_agent_message, lines 175-181.
response_message(b, agent_name, message) ==
    NewMessage(b, agent_name, message.sender, Str("result"), "response",
               [original_message_id |-> message_id(message)])

\* _handle_agent_message, lines 184-190.
error_message(b, message) ==
    NewMessage(b, "system", message.sender, Str("Error processing message"),
               "error", [original_message_id |-> message_id(message)])

\* _handle_agent_message, lines 168-191: the run returned its payload and the
\* response is sent, or the run raised (execute_agent raises ValueError when
\* the agent has been deleted from the manager) and the error is sent; then
\* the loop checks its condition again.
handle_agent_message(l) ==
    /\ loops[l].pc = "handling"
    /\ Len(conversation_history) < MaxMessages
    /\ \E raised \in BOOLEAN :
           LET message == loops[l].message
               reply == IF raised THEN error_message(Bus, message)
                        ELSE response_message(Bus, loops[l].agent_name, message)
           IN  Becomes(LoopChecked(Sent(Bus, reply), l))
    /\ UNCHANGED <<bus_now, coordination, shut_down>>

\* _process_agent_messages, lines 145-151: the poll of a loop whose agent is no
\* longer in the pool times out (or the task runs for the first time), and
\* the task ends.
process_agent_messages_ends(l) ==
    /\ loops[l].pc = "get"
    /\ ~InSeq(active_agents, loops[l].agent_name)
    /\ loops' = RemoveAt(loops, l)
    /\ UNCHANGED <<bus_now, message_queue, active_agents, conversation_history,
                   coordination, delivery, shut_down>>

\* execute_coordinated_task, lines 97-122: up to its first read of the queue.
execute_coordinated_task(task_description, participating_agents, coordinator_agent) ==
    LET b1 == StartedAll(Bus, participating_agents)
        task_message ==
            NewMessage(b1, "system", coordinator_agent,
                       [coordinate |-> task_description], "task",
                       [ task_type |-> "coordination",
                         participants |-> participating_agents ])
    IN  /\ coordination.pc = "idle"
        /\ Len(conversation_history) < MaxMessages
        /\ Len(b1.loops) <= MaxLoops
        /\ Becomes(Sent(b1, task_message))
        /\ coordination' =
               [ pc |-> "wait", task |-> task_description,
                 participating_agents |-> participating_agents,
                 coordinator_agent |-> coordinator_agent, responses |-> << >>,
                 started |-> bus_now, get_started |-> bus_now,
                 timed_out |-> FALSE, completed_at |-> 0 ]
        /\ shut_down' = FALSE
        /\ UNCHANGED bus_now

\* execute_coordinated_task, lines 131-141: the participants are stopped and
\* the call returns.
CoordinationReturns(b, responses, timed_out) ==
    /\ Becomes(StoppedAll(b, coordination.participating_agents))
    /\ coordination' = [coordination EXCEPT !.pc = "returned",
                                            !.responses = responses,
                                            !.timed_out = timed_out,
                                            !.completed_at = bus_now]

\* execute_coordinated_task, lines 119-127: the read of the queue returns a
\* message.
coordination_gets ==
    /\ coordination.pc = "wait"
    /\ message_queue # << >>
    /\ LET message == Head(message_queue)
           match == Matches(coordination, message)
           responses == IF match THEN Append(coordination.responses, message)
                        ELSE coordination.responses
           b1 == Taken(Bus, IF match THEN "collected"
                            ELSE Dropped(delivery[message.object]))
       IN  IF Len(responses) < Len(coordination.participating_agents)
           THEN /\ Becomes(b1)
                /\ coordination' = [coordination EXCEPT !.responses = responses,
                                                        !.get_started = bus_now]
           ELSE CoordinationReturns(b1, responses, FALSE)
    /\ UNCHANGED <<bus_now, shut_down>>

\* execute_coordinated_task, lines 128-129: the read of the queue times out.
coordination_times_out ==
    /\ coordination.pc = "wait"
    /\ message_queue = << >>
    /\ bus_now >= coordination.get_started + timeout
    /\ CoordinationReturns(Bus, coordination.responses, TRUE)
    /\ UNCHANGED <<bus_now, shut_down>>

---------------------------------------------------------------------------
(***************************************************************************)
(* The example capabilities (src/elysia/api/custom_tools.py), called on    *)
(* their own.  A capability is an async generator that never awaits: one   *)
(* call yields its whole event sequence.  A Python str whose characters    *)
(* matter is a sequence of one-character strings; a float is the rational  *)
(* number it stands for, as a fraction in lowest terms.                    *)
(***************************************************************************)

\* Bounds: the longest list of numbers and the longest string of numbers.
MaxNumbers == 3
MaxChars == 3

VARIABLES tree_data, tool_inputs, last_call

tools == <<tree_data, tool_inputs, last_call>>

Num(n) == [num |-> n]

Chars(cs) == [chars |-> cs]

List(elements) == [list |-> elements]

RECURSIVE GCD(_, _)
GCD(a, b) == IF b = 0 THEN a ELSE GCD(b, a % b)

Abs(n) == IF n < 0 THEN -n ELSE n

\* The float n / d, d > 0.
Frac(n, d) == LET g == GCD(Abs(n), d) IN [n |-> n \div g, d |-> d \div g]

Whitespace == {" "}

Digits == {"1", "2"}

DigitValue(ch) == IF ch = "1" THEN 1 ELSE 2

RECURSIVE Decimal(_)
Decimal(cs) ==
    IF cs = << >> THEN 0
    ELSE 10 * Decimal(SubSeq(cs, 1, Len(cs) - 1)) + DigitValue(cs[Len(cs)])

\* str.strip()
RECURSIVE strip(_)
strip(cs) ==
    IF cs # << >> /\ Head(cs) \in Whitespace THEN strip(Tail(cs))
    ELSE IF cs # << >> /\ cs[Len(cs)] \in Whitespace
    THEN strip(SubSeq(cs, 1, Len(cs) - 1))
    ELSE cs

\* str.split(","): the chunks between the commas, empty ones included.
RECURSIVE split_comma(_, _)
split_comma(cs, chunk) ==
    IF cs = << >> THEN <<chunk>>
    ELSE IF Head(cs) = "," THEN <<chunk>> \o split_comma(Tail(cs), << >>)
    ELSE split_comma(Tail(cs), Append(chunk, Head(cs)))

\* str.split(): the runs of characters between whitespace, none of them empty.
RECURSIVE split(_, _)
split(cs, part) ==
    IF cs = << >> THEN (IF part = << >> THEN << >> ELSE <<part>>)
    ELSE IF Head(cs) \in Whitespace
    THEN (IF part = << >> THEN << >> ELSE <<part>>) \o split(Tail(cs), << >>)
    ELSE split(Tail(cs), Append(part, Head(cs)))

RECURSIVE split_chunks(_)
split_chunks(chunks) ==
    IF chunks = << >> THEN << >>
    ELSE split(Head(chunks), << >>) \o split_chunks(Tail(chunks))

\* Lines 109-113.
parts(raw_numbers) ==
    IF InSeq(raw_numbers, ",")
    THEN LET ps == split_chunks(split_comma(raw_numbers, << >>))
         IN  [k \in 1..Len(ps) |-> strip(ps[k])]
    ELSE split(raw_numbers, << >>)

\* float(p): of a number the number; of a str the number its stripped text
\* spells, ValueError if it spells none; of anything else TypeError.
float(p) ==
    IF "num" \in DOMAIN p THEN [ok |-> TRUE, value |-> p.num]
    ELSE IF "chars" \in DOMAIN p
    THEN LET cs == strip(p.chars)
         IN  IF cs # << >> /\ \A k \in 1..Len(cs) : cs[k] \in Digits
             THEN [ok |-> TRUE, value |-> Decimal(cs)]
             ELSE [ok |-> FALSE, value |-> 0]
    ELSE [ok |-> FALSE, value |-> 0]

\* str.lower().strip() of the operation names used.
lower_strip(s) ==
    CASE s = "SUM" -> "sum"
      [] s = " mean " -> "mean"
      [] OTHER -> s

RECURSIVE sum(_)
sum(numbers) == IF numbers = << >> THEN 0 ELSE Head(numbers) + sum(Tail(numbers))

RECURSIVE prod(_)
prod(numbers) == IF numbers = << >> THEN 1 ELSE Head(numbers) * prod(Tail(numbers))

min(numbers) ==
    CHOOSE x \in {numbers[k] : k \in 1..Len(numbers)} :
        \A k \in 1..Len(numbers) : x <= numbers[k]

max(numbers) ==
    CHOOSE x \in {numbers[k] : k \in 1..Len(numbers)} :
        \A k \in 1..Len(numbers) : x >= numbers[k]

\* A bug of the aggregation: the mean divides by one less than the count.
mean_off_by_one(numbers) ==
    IF Len(numbers) = 1 THEN Frac(sum(numbers), 1)
    ELSE Frac(sum(numbers), Len(numbers) - 1)

\* sum(numbers) / len(numbers), line 149.
mean(numbers) == Frac(sum(numbers), Len(numbers))

\* SafeMath.__call__, lines 105-168.
SafeMath(inputs) ==
    IF ~Has(inputs, "numbers") THEN Trace(<< >>, "raise", {})
    ELSE
    LET raw_numbers == Get(inputs, "numbers")
        elements == IF "chars" \in DOMAIN raw_numbers
                    THEN [k \in 1..Len(parts(raw_numbers.chars)) |->
                              Chars(parts(raw_numbers.chars)[k])]
                    ELSE raw_numbers.list
    IN  IF ~("chars" \in DOMAIN raw_numbers) /\ ~("list" \in DOMAIN raw_numbers)
        THEN Trace(<<Error>>, "stop", {})
        ELSE IF \E k \in 1..Len(elements) : ~float(elements[k]).ok
        THEN Trace(<<Error>>, "stop", {})
        ELSE
        LET numbers == [k \in 1..Len(elements) |-> float(elements[k]).value]
        IN  IF numbers = << >> THEN Trace(<<Error>>, "stop", {})
            ELSE IF ~Has(inputs, "operation") THEN Trace(<< >>, "raise", {})
            ELSE IF ~("str" \in DOMAIN Get(inputs, "operation"))
            THEN Trace(<< >>, "raise", {})
            ELSE
            LET operation == lower_strip(Get(inputs, "operation").str)
                done(value) ==
                    Trace(<<Status,
                            Result(<<[operation |-> operation, value |-> value,
                                      count |-> Len(numbers)]>>)>>, "stop", {})
            IN  CASE operation = "sum" -> done(Frac(sum(numbers), 1))
                  [] operation = "product" -> done(Frac(prod(numbers), 1))
                  [] operation = "min" -> done(Frac(min(numbers), 1))
                  [] operation = "max" -> done(Frac(max(numbers), 1))
                  [] operation = "mean" -> done(mean(numbers))
                  [] OTHER -> Trace(<<Error>>, "stop", {})

\* The environment, a dict of dicts in insertion order: a sequence of
\* <<tool_name, results>>, results a sequence of <<result_name, result_list>>.
RECURSIVE total_objects(_)
total_objects(result_list) ==
    IF result_list = << >> THEN 0
    ELSE (IF Has(Head(result_list), "objects")
          THEN Len(Get(Head(result_list), "objects")) ELSE 0)
         + total_objects(Tail(result_list))

\* Lines 194-204: the groups of one capability.
Groups(tool_name, results) ==
    [k \in 1..Len(results) |->
        [ tool |-> tool_name, result_name |-> results[k][1],
          num_batches |-> Len(results[k][2]),
          total_objects |-> total_objects(results[k][2]) ]]

\* A bug of the summary: the reserved key is not skipped.
RECURSIVE summary_lists_reserved(_)
summary_lists_reserved(env) ==
    IF env = << >> THEN << >>
    ELSE Groups(Head(env)[1], Head(env)[2]) \o summary_lists_reserved(Tail(env))

\* Lines 190-204.
RECURSIVE summary(_)
summary(env) ==
    IF env = << >> THEN << >>
    ELSE IF Head(env)[1] = "SelfInfo" THEN summary(Tail(env))
    ELSE Groups(Head(env)[1], Head(env)[2]) \o summary(Tail(env))

\* EnvironmentSummary.__call__, lines 189-212.
EnvironmentSummary(env) ==
    Trace(<<Status,
            Result(IF summary(env) # << >> THEN summary(env)
                   ELSE <<[message |-> "Environment empty"]>>)>>, "stop", {})

\* The inputs the capabilities are called with.
NumberChoices == {-2, 1, 2, 3, 4}

Elements ==
    {Num(n) : n \in NumberChoices} \cup {Chars(<<"2">>), Chars(<<"x">>), NoneObj}

Alphabet == {"1", "2", "x", ",", " "}

Operations ==
    {"sum", "product", "min", "max", "mean", "SUM", " mean ", "median"}

StrOperations == {"sum", "mean", "median"}

SeqsUpTo(S, n) == UNION {[1..k -> S] : k \in 0..n}

MathInputs ==
    { {<<"numbers", List(l)>>, <<"operation", Str(op)>>} :
          l \in SeqsUpTo(Elements, MaxNumbers), op \in Operations }
    \cup { {<<"numbers", Chars(cs)>>, <<"operation", Str(op)>>} :
               cs \in SeqsUpTo(Alphabet, MaxChars), op \in StrOperations }
    \cup { {<<"numbers", Num(1)>>, <<"operation", Str("sum")>>},
           {<<"numbers", List(<<Num(1)>>)>>, <<"operation", NoneObj>>},
           {<<"numbers", List(<<Num(1)>>)>>},
           {<<"operation", Str("sum")>>} }

HiddenKeys == {"unlock", "other"}

HiddenValues == {Str("v0"), NoneObj}

HiddenEnvironments ==
    { h \in SUBSET (HiddenKeys \X HiddenValues) :
          \A p, q \in h : p[1] = q[1] => p = q }

StoreInputs ==
    { {<<"key", Str(k)>>, <<"value", v>>} : k \in HiddenKeys, v \in HiddenValues }
    \cup { {} }

ToolNames == {"SelfInfo", "Query", "Aggregate"}

ResultChoices ==
    { << >>,
      << <<"default", << {<<"objects", <<"o1", "o2">>>>} >>>> >>,
      << <<"a", << {<<"objects", <<"o1">>>>}, {<<"metadata", << >>>>} >>>>,
         <<"b", << >>>> >> }

Environments ==
    { e \in SeqsUpTo(ToolNames \X ResultChoices, Cardinality(ToolNames)) :
          \A j, k \in 1..Len(e) : e[j][1] = e[k][1] => j = k }

\* tree_data.environment of MockTreeData (agent_executor.py, lines 138-147).
TreeData(environment, hidden_environment) ==
    [environment |-> environment, hidden_environment |-> hidden_environment]

ToolCases ==
    { <<TreeData(<< >>, {}), i>> : i \in MathInputs }
    \cup { <<TreeData(e, {}), {}>> : e \in Environments }
    \cup { <<TreeData(<< >>, h), i>> : h \in HiddenEnvironments, i \in StoreInputs }

\* The outcome of the latest call.
Call(tool, trace, available) ==
    [tool |-> tool, trace |-> trace, available |-> available]

NoCall == Call("", Pending, FALSE)

\* No capability is called on its own.
ToolIdle ==
    /\ tree_data = TreeData(<< >>, {})
    /\ tool_inputs = {}
    /\ last_call = NoCall

ToolInit ==
    /\ \E c \in ToolCases : tree_data = c[1] /\ tool_inputs = c[2]
    /\ last_call = NoCall

call_SafeMath ==
    /\ last_call' = Call("SafeMath", SafeMath(tool_inputs), TRUE)
    /\ UNCHANGED <<tree_data, tool_inputs>>

call_EnvironmentSummary ==
    /\ last_call' = Call("EnvironmentSummary",
                         EnvironmentSummary(tree_data.environment), TRUE)
    /\ UNCHANGED <<tree_data, tool_inputs>>

call_HiddenStoreWriter ==
    LET trace == HiddenStoreWriter(tool_inputs, tree_data.hidden_environment)
    IN  /\ last_call' = Call("HiddenStoreWriter", trace, TRUE)
        /\ tree_data' =
               [tree_data EXCEPT !.hidden_environment =
                    {p \in @ : p[1] \notin Keys(trace.writes)} \cup trace.writes]
        /\ UNCHANGED tool_inputs

call_HiddenStoreConditionalTool ==
    /\ last_call' =
           Call("HiddenStoreConditionalTool",
                HiddenStoreConditionalTool(tool_inputs, tree_data.hidden_environment),
                TRUE)
    /\ UNCHANGED <<tree_data, tool_inputs>>

\* HiddenStoreConditionalTool.is_tool_available, lines 270-271.
call_is_tool_available ==
    /\ last_call' =
           Call("is_tool_available", Pending,
                is_tool_available("HiddenStoreConditionalTool",
                                  tree_data.hidden_environment))
    /\ UNCHANGED <<tree_data, tool_inputs>>

---------------------------------------------------------------------------
(***************************************************************************)
(* Workflows (AgentCollaboration, src/elysia/api/multi_agent.py).  A       *)
(* workflow is a list of steps; execute_workflow awaits one coordinated    *)
(* task of the orchestrator per step.  Awaiting a coroutine does not       *)
(* suspend by itself: the call runs on until the coordinated task reads    *)
(* the queue, and goes on from where that read returns or times out.  The  *)
(* steps here name at least one participant each, so every coordinated     *)
(* task reads the queue at least once.                                     *)
(***************************************************************************)

\* Bound: the clock of the bus while a workflow runs (two reads of thirty
\* seconds).
MaxWorkflowClock == 60

VARIABLES
    workflows,   \* AgentCollaboration.workflows: pairs <<name, workflow>>
    workflow     \* the call of execute_workflow

flow == <<workflows, workflow>>

Step(name, description, step_agents, coordinator) ==
    [ name |-> name, description |-> description, agents |-> step_agents,
      coordinator |-> coordinator ]

\* The workflows callers of define_workflow define: <<name, steps, agents>>.
WorkflowDefinitions ==
    { <<"pair", << Step("first", "task", <<"empty">>, "empty"),
                   Step("second", "task2", <<"flaky">>, "hidden") >>,
        <<"empty", "flaky">> >>,
      <<"solo", << Step("only", "task", <<"empty", "ghost">>, "flaky") >>,
        <<"empty", "ghost">> >> }

\* The names callers of execute_workflow pass.
WorkflowNames == { "pair", "solo", "missing" }

\* The call of execute_workflow: its argument, the list it iterates and where
\* it is in it, its local `results`, and what it returned.
NoWorkflow ==
    [ pc |-> "idle", workflow_name |-> "", steps |-> << >>, i |-> 0,
      results |-> << >>, ret |-> NoneObj ]

FlowInit ==
    /\ workflows = {}
    /\ workflow = NoWorkflow

\* define_workflow, lines 234-242.
define_workflow(name, steps, workflow_agents) ==
    /\ workflows' = Put(workflows, name,
                        [ steps |-> steps, agents |-> workflow_agents,
                          created_at |-> bus_now ])
    /\ UNCHANGED <<bus, workflow>>

\* A bug of the step loop: the entry of a step is put in front of the list.
results_prepended(results, step, step_results) ==
    <<[step |-> step.name, results |-> step_results]>> \o results

\* results.append({"step": step["name"], "results": step_results}), line 258.
results_append(results, step, step_results) ==
    Append(results, [step |-> step.name, results |-> step_results])

\* execute_coordinated_task called on the orchestrator in state b, lines
\* 97-122: up to its first read of the queue.
coordinated_task_starts(b, step) ==
    LET b1 == StartedAll(b, step.agents)
        task_message ==
            NewMessage(b1, "system", step.coordinator,
                       [coordinate |-> step.description], "task",
                       [ task_type |-> "coordination",
                         participants |-> step.agents ])
    IN  /\ Len(b.conversation_history) < MaxMessages
        /\ Len(b1.loops) <= MaxLoops
        /\ Becomes(Sent(b1, task_message))
        /\ coordination' =
               [ pc |-> "wait", task |-> step.description,
                 participating_agents |-> step.agents,
                 coordinator_agent |-> step.coordinator, responses |-> << >>,
                 started |-> bus_now, get_started |-> bus_now,
                 timed_out |-> FALSE, completed_at |-> 0 ]
        /\ shut_down' = FALSE

\* What execute_coordinated_task returns, lines 135-141.
step_results(c, responses) ==
    [ task |-> c.task, coordinator |-> c.coordinator_agent,
      participants |-> c.participating_agents, responses |-> responses,
      completed_at |-> bus_now ]

\* execute_workflow, lines 246-253: up to the first queue read of the first
\* step's coordinated task, or to the return of the error.
execute_workflow(workflow_name) ==
    /\ workflow.pc = "idle"
    /\ coordination.pc = "idle"
    /\ IF ~Has(workflows, workflow_name)
       THEN /\ workflow' = [NoWorkflow EXCEPT !.pc = "returned",
                                              !.workflow_name = workflow_name,
                                              !.ret = [error |-> "Workflow not found"]]
            /\ UNCHANGED bus
       ELSE LET steps == Get(workflows, workflow_name).steps
            IN  /\ steps # << >>
                /\ coordinated_task_starts(Bus, steps[1])
                /\ workflow' = [NoWorkflow EXCEPT !.pc = "step",
                                                  !.workflow_name = workflow_name,
                                                  !.steps = steps, !.i = 1]
                /\ UNCHANGED bus_now
    /\ UNCHANGED workflows

\* execute_coordinated_task, lines 131-141, and execute_workflow, lines
\* 252-264: the coordinated task of the step stops its participants and
\* returns, its results are recorded, and the next step's coordinated task
\* runs up to its first read of the queue, or execute_workflow returns.
step_returns(b, responses, timed_out) ==
    LET b1 == StoppedAll(b, coordination.participating_agents)
        results == results_append(workflow.results, workflow.steps[workflow.i],
                                  step_results(coordination, responses))
    IN  IF workflow.i < Len(workflow.steps)
        THEN /\ coordinated_task_starts(b1, workflow.steps[workflow.i + 1])
             /\ workflow' = [workflow EXCEPT !.i = @ + 1, !.results = results]
        ELSE /\ Becomes(b1)
             /\ coordination' = [coordination EXCEPT !.pc = "returned",
                                                     !.responses = responses,
                                                     !.timed_out = timed_out,
                                                     !.completed_at = bus_now]
             /\ workflow' = [workflow EXCEPT
                                 !.pc = "returned", !.results = results,
                                 !.ret = [ workflow |-> workflow.workflow_name,
                                           completed_steps |-> results,
                                           completed_at |-> bus_now ]]
             /\ UNCHANGED shut_down

\* execute_coordinated_task, lines 119-127, inside a step: the read of the
\* queue returns a message.
step_gets ==
    /\ workflow.pc = "step"
    /\ coordination.pc = "wait"
    /\ message_queue # << >>
    /\ LET message == Head(message_queue)
           match == Matches(coordination, message)
           responses == IF match THEN Append(coordination.responses, message)
                        ELSE coordination.responses
           b1 == Taken(Bus, IF match THEN "collected"
                            ELSE Dropped(delivery[message.object]))
       IN  IF Len(responses) < Len(coordination.participating_agents)
           THEN /\ Becomes(b1)
                /\ coordination' = [coordination EXCEPT !.responses = responses,
                                                        !.get_started = bus_now]
                /\ UNCHANGED <<workflow, shut_down>>
           ELSE step_returns(b1, responses, FALSE)
    /\ UNCHANGED <<bus_now, workflows>>

\* execute_coordinated_task, lines 128-129, inside a step: the read of the
\* queue times out.
step_times_out ==
    /\ workflow.pc = "step"
    /\ coordination.pc = "wait"
    /\ message_queue = << >>
    /\ bus_now >= coordination.get_started + timeout
    /\ step_returns(Bus, coordination.responses, TRUE)
    /\ UNCHANGED <<bus_now, workflows>>

\* Fifteen seconds pass while a step's coordinated task waits.
WorkflowTick ==
    /\ bus_now < MaxWorkflowClock
    /\ coordination.pc = "wait"
    /\ ~(message_queue # << >> /\ ReaderWaits)
    /\ \A l \in 1..Len(loops) :
           loops[l].pc = "get" => InSeq(active_agents, loops[l].agent_name)
    /\ bus_now < coordination.get_started + timeout
    /\ bus_now' = bus_now + 15
    /\ UNCHANGED <<message_queue, active_agents, conversation_history, loops,
                   coordination, delivery, shut_down, flow>>

---------------------------------------------------------------------------
\* The executor alone, the bus alone, and the capabilities alone.

\* An executor and an orchestrator just constructed.
InitAll == Init /\ BusInit /\ ToolIdle /\ FlowInit

Next ==
    \/ Tick /\ UNCHANGED <<bus, tools, flow>>
    \/ (\E q \in Requests, t \in TimeoutChoices : execute_agent(q[1], q[2], t))
           /\ UNCHANGED <<bus, tools, flow>>
    \/ (\E r \in Runs : execute_agent_internal(r)) /\ UNCHANGED <<bus, tools, flow>>
    \/ (\E r \in Runs : tool_resumes(r)) /\ UNCHANGED <<bus, tools, flow>>
    \/ (\E r \in Runs : wait_for_timeout(r)) /\ UNCHANGED <<bus, tools, flow>>
    \/ (\E r \in Runs : task_cancelled(r)) /\ UNCHANGED <<bus, tools, flow>>
    \/ (\E id \in Ids : cancel_execution(id)) /\ UNCHANGED <<bus, tools, flow>>

Spec == InitAll /\ [][Next]_<<vars, bus, tools, flow>>

\* The runs left to themselves: no deadline expires and nobody cancels.
LoopNext ==
    \/ (\E q \in Requests, t \in TimeoutChoices : execute_agent(q[1], q[2], t))
           /\ UNCHANGED <<bus, tools, flow>>
    \/ (\E r \in Runs : execute_agent_internal(r)) /\ UNCHANGED <<bus, tools, flow>>
    \/ (\E r \in Runs : tool_resumes(r)) /\ UNCHANGED <<bus, tools, flow>>

\* The task of run r is resumed by the event loop.
Scheduled(r) ==
    /\ r \in Runs
    /\ execute_agent_internal(r) \/ tool_resumes(r)
    /\ UNCHANGED <<bus, tools, flow>>

\* The task of run r is on the event loop's ready queue: this is
\* ENABLED <<Scheduled(r)>>_<<vars, bus, tools, flow>>.
Ready(r) == r \in Runs /\ coro[r].pc \in {"created", "tool"}

\* asyncio runs its ready queue in order, so a task that stays ready is
\* resumed: WF_<<vars, bus, tools, flow>>(Scheduled(r)), with ENABLED written out
\* as Ready(r).
Fairness(r) ==
    \/ []<>~Ready(r)
    \/ []<><<Scheduled(r)>>_<<vars, bus, tools, flow>>

LoopSpec ==
    /\ InitAll
    /\ [][LoopNext]_<<vars, bus, tools, flow>>
    /\ \A r \in 1..MaxRuns : Fairness(r)

BusNext ==
    \/ BusTick /\ UNCHANGED <<vars, tools, flow>>
    \/ (\E a \in BusAgents : start_agent(a)) /\ UNCHANGED <<vars, tools, flow>>
    \/ (\E a \in BusAgents : stop_agent(a)) /\ UNCHANGED <<vars, tools, flow>>
    \/ (\E c \in CallerMessages :
            send_message(NewMessage(Bus, c[1], c[2], Str("text"), "text", NoneObj)))
           /\ UNCHANGED <<vars, tools, flow>>
    \/ (\E s \in BroadcastSenders : broadcast_message(s)) /\ UNCHANGED <<vars, tools, flow>>
    \/ shutdown /\ UNCHANGED <<vars, tools, flow>>
    \/ (\E q \in CoordinationRequests : execute_coordinated_task(q[1], q[2], q[3]))
           /\ UNCHANGED <<vars, tools, flow>>
    \/ coordination_gets /\ UNCHANGED <<vars, tools, flow>>
    \/ coordination_times_out /\ UNCHANGED <<vars, tools, flow>>
    \/ (\E l \in 1..Len(loops) : process_agent_messages(l)) /\ UNCHANGED <<vars, tools, flow>>
    \/ (\E l \in 1..Len(loops) : handle_agent_message(l)) /\ UNCHANGED <<vars, tools, flow>>
    \/ (\E l \in 1..Len(loops) : process_agent_messages_ends(l)) /\ UNCHANGED <<vars, tools, flow>>

BusSpec == InitAll /\ [][BusNext]_<<vars, bus, tools, flow>>

ToolInitAll == Init /\ BusInit /\ ToolInit /\ FlowInit

ToolNext ==
    \/ call_SafeMath /\ UNCHANGED <<vars, bus, flow>>
    \/ call_EnvironmentSummary /\ UNCHANGED <<vars, bus, flow>>
    \/ call_HiddenStoreWriter /\ UNCHANGED <<vars, bus, flow>>
    \/ call_HiddenStoreConditionalTool /\ UNCHANGED <<vars, bus, flow>>
    \/ call_is_tool_available /\ UNCHANGED <<vars, bus, flow>>

ToolSpec == ToolInitAll /\ [][ToolNext]_<<vars, bus, tools, flow>>

\* A workflow on an orchestrator of its own: the caller defines workflows and
\* executes one; the consumption loops and the clock run beside it.
WorkflowNext ==
    \/ WorkflowTick /\ UNCHANGED <<vars, tools>>
    \/ (\E d \in WorkflowDefinitions : define_workflow(d[1], d[2], d[3]))
           /\ UNCHANGED <<vars, tools>>
    \/ (\E n \in WorkflowNames : execute_workflow(n)) /\ UNCHANGED <<vars, tools>>
    \/ step_gets /\ UNCHANGED <<vars, tools>>
    \/ step_times_out /\ UNCHANGED <<vars, tools>>
    \/ (\E l \in 1..Len(loops) : process_agent_messages(l))
           /\ UNCHANGED <<vars, tools, flow>>
    \/ (\E l \in 1..Len(loops) : handle_agent_message(l))
           /\ UNCHANGED <<vars, tools, flow>>
    \/ (\E l \in 1..Len(loops) : process_agent_messages_ends(l))
           /\ UNCHANGED <<vars, tools, flow>>

WorkflowSpec == InitAll /\ [][WorkflowNext]_<<vars, bus, tools, flow>>

---------------------------------------------------------------------------
\* Vocabulary of the properties.

\* The context is a value of the active-run table.
InActive(r) == \E p \in active_executions : p[2] = r

Count(seq, x) == Cardinality({k \in 1..Len(seq) : seq[k] = x})

\* How often ExecutionContext.complete was applied to the context.
Completions(c) == Cardinality({k \in 1..Len(c.steps) : c.steps[k].type = "completion"})

\* The call of execute_agent that owns the context has returned or raised.
Returned(r) == coro[r].pc = "done"

\* The context was completed with the outcome "timeout".
TimedOut(r) ==
    \E k \in 1..Len(ctx[r].steps) :
        /\ ctx[r].steps[k].type = "completion"
        /\ ctx[r].steps[k].data.result = Str("timeout")

Declared(r) == agents[ctx[r].agent_name]

\* The invocation won nothing: it raised, or it ended without any Result.
NoResult(v) ==
    \/ v.trace.end = "raise"
    \/ v.trace.end = "stop" /\ Results(v.trace.events) = << >>

\* The dispatch loop of the run ran over every declared capability and none of
\* them produced a Result.
Exhausted(r) ==
    /\ ctx[r].task.is_dict
    /\ \E k \in 1..Len(ctx[r].steps) : ctx[r].steps[k].type = "start"
    /\ \A j \in 1..Len(Declared(r)) :
           \/ CtorRaises(Declared(r)[j])
           \/ \E k \in 1..Len(invoked[r]) :
                  invoked[r][k].index = j /\ NoResult(invoked[r][k])

\* The capabilities were called in declared order, none called twice and none
\* passed over.
DeclaredOrder(r) ==
    \A k \in 1..Len(invoked[r]) :
        /\ invoked[r][k].index \in 1..Len(Declared(r))
        /\ invoked[r][k].tool = Declared(r)[invoked[r][k].index]
        /\ k > 1 => invoked[r][k - 1].index < invoked[r][k].index
        /\ \A j \in 1..(invoked[r][k].index - 1) :
               \/ CtorRaises(Declared(r)[j])
               \/ \E m \in 1..(k - 1) : invoked[r][m].index = j

---------------------------------------------------------------------------
\* C1: once a run has ended, by success, timeout, internal error or
\* cancel_execution, its context is absent from the active-run table and occurs
\* in the history list exactly once.
C1_EndedRunIsArchivedOnce ==
    \A r \in Runs :
        (Returned(r) \/ ctx[r].end_time # << >>) =>
            /\ ~InActive(r)
            /\ Count(execution_history, r) = 1

\* What does hold of the cleanup: once the call of execute_agent has returned or
\* raised, its context is not in the table and is in the history exactly once,
\* and no context is in the history before that.
CleanupAtReturn ==
    \A r \in Runs :
        /\ Returned(r) => ~InActive(r) /\ Count(execution_history, r) = 1
        /\ ~Returned(r) => Count(execution_history, r) = 0

\* C2: execute_agent with a name the registry cannot resolve raises before any
\* context is created: the step changes neither the contexts, nor the
\* active-run table, nor the history list.
C2_UnknownAgentFailsFast ==
    [][ \A q \in Requests, t \in TimeoutChoices :
            (q[1] \notin DOMAIN agents /\ execute_agent(q[1], q[2], t)) =>
                UNCHANGED <<ctx, coro, active_executions, execution_history>> ]_vars

\* A state with a running and an archived run in which the call is made.
C2_Witness ==
    /\ execute_agent_raises("ghost")
    /\ active_executions # {}
    /\ execution_history # << >>

\* C3 (as claimed): capabilities are invoked in declared order and the first one
\* to yield a Result event wins: no capability after it is invoked and its
\* first payload object is the run's result.
C3_FirstResultEventWins ==
    \A r \in Runs :
        /\ DeclaredOrder(r)
        /\ \A k \in 1..Len(invoked[r]) :
               Results(invoked[r][k].trace.events) # << >> =>
                   /\ k = Len(invoked[r])
                   /\ Returned(r)
                   /\ coro[r].ret.status = "completed"
                   /\ LET first == Results(invoked[r][k].trace.events)[1]
                      IN  first.objects # << >> => coro[r].ret.result = first.objects[1]

\* C3 (amended): capabilities are invoked in declared order and the first one
\* whose event sequence ends without raising and holds a Result wins: no
\* capability after it is invoked, and the run's result is the first payload
\* object of its first Result, or {"message": "No result"} if that Result
\* carries no object.
C3_FirstCompletedResultWins ==
    \A r \in Runs :
        /\ DeclaredOrder(r)
        /\ \A k \in 1..Len(invoked[r]) :
               (invoked[r][k].trace.end = "stop"
                    /\ Results(invoked[r][k].trace.events) # << >>) =>
                   /\ k = Len(invoked[r])
                   /\ Returned(r)
                   /\ coro[r].ret.status = "completed"
                   /\ LET first == Results(invoked[r][k].trace.events)[1]
                      IN  coro[r].ret.result =
                              IF first.objects # << >> THEN first.objects[1]
                              ELSE [message |-> "No result"]

\* A run won by its second invocation, with a declared capability left uncalled.
C3_Witness ==
    \E r \in Runs :
        /\ Returned(r)
        /\ Len(invoked[r]) >= 2
        /\ invoked[r][Len(invoked[r])].trace.end = "stop"
        /\ Results(invoked[r][Len(invoked[r])].trace.events) # << >>
        /\ invoked[r][Len(invoked[r])].index < Len(Declared(r))

\* C4: the loop invokes a capability only if its availability predicate is
\* true for the run's environment at that moment.
C4_OnlyAvailableInvoked ==
    \A r \in Runs : \A k \in 1..Len(invoked[r]) : invoked[r][k].available

\* C5: completion is applied to a context at most once, so its step log holds
\* at most one completion step.
C5_CompletedAtMostOnce ==
    \A r \in Runs : Completions(ctx[r]) <= 1

\* C6: any two contexts of the executor have different execution ids, and the
\* active-run table holds an entry for every run that is running (not returned
\* and not cancelled).
C6_ExecutionIdsDiffer ==
    /\ \A r1, r2 \in Runs : r1 # r2 => ctx[r1].execution_id # ctx[r2].execution_id
    /\ \A r \in Runs : (~Returned(r) /\ ctx[r].end_time = << >>) => InActive(r)

\* C7: when no capability of the agent produces a Result, execute_agent returns
\* (it does not raise) and the run result is the explicit failure payload.
C7_NoResultGivesFailurePayload ==
    \A r \in Runs :
        Exhausted(r) =>
            /\ Returned(r)
            /\ coro[r].ret.status \notin {"none", "raised"}
            /\ "result" \in DOMAIN coro[r].ret
            /\ coro[r].ret.result = [error |-> "No suitable tool found or all tools failed"]

\* A run whose two invocations both failed.
C7_Witness ==
    \E r \in Runs : Exhausted(r) /\ Len(invoked[r]) >= 2

\* C8: when every capability is exhausted without a Result, the status of the
\* returned payload is a failure status, not "completed".
C8_ExhaustedIsFailureStatus ==
    \A r \in Runs :
        (Exhausted(r) /\ Returned(r)) => coro[r].ret.status \in {"error", "timeout"}

\* C9: for a registered agent execute_agent never raises and returns an
\* execution id, a status among completed, timeout and error, a step count, a
\* duration, and a result if completed or an error otherwise.  (The caller
\* cancelling the awaiting task is no behaviour of a capability.)
C9_UniformResultStructure ==
    \A r \in Runs :
        (Returned(r) /\ coro[r].ret # Raised("CancelledError")) =>
            /\ coro[r].ret.status \in {"completed", "timeout", "error"}
            /\ {"execution_id", "steps", "duration"} \subseteq DOMAIN coro[r].ret
            /\ coro[r].ret.status = "completed" => "result" \in DOMAIN coro[r].ret
            /\ coro[r].ret.status # "completed" => "error" \in DOMAIN coro[r].ret

C11_CancelOfActiveRun ==
    [][ \A id \in Ids :
            (Has(active_executions, id) /\ cancel_execution(id)) =>
                LET r == Get(active_executions, id)
                IN  /\ cancel_execution_returns(id)
                    /\ ctx[r].execution_id = id
                    /\ ctx[r].end_time = << >> /\ ~Returned(r)
                    /\ ctx'[r].end_time = <<now>>
                    /\ ctx'[r].steps =
                           Append(ctx[r].steps,
                                  [ type |-> "completion",
                                    data |-> [ success |-> FALSE,
                                               result |-> Str("cancelled"),
                                               duration |-> now - ctx[r].start_time ] ])
                    /\ ~Has(active_executions', id)
                    /\ \A q \in Runs \ {r} : ctx'[q] = ctx[q] ]_vars

\* A run cancelled while suspended inside a capability, another run still active.
C11_Witness ==
    \E r \in Runs :
        /\ coro[r].pc = "tool"
        /\ ~InActive(r)
        /\ ctx[r].steps # << >>
        /\ ctx[r].steps[Len(ctx[r].steps)].data = [ success |-> FALSE,
                                                   result |-> Str("cancelled"),
                                                   duration |-> 1 ]
        /\ active_executions # {}

\* C12: cancel_execution on an execution id that is not in the active-run table
\* returns false and changes neither the table, nor the history list, nor any
\* context.
C12_CancelOfInactiveIdIsNoOp ==
    [][ \A id \in Ids :
            (~Has(active_executions, id) /\ cancel_execution(id)) =>
                /\ ~cancel_execution_returns(id)
                /\ UNCHANGED <<ctx, active_executions, execution_history>> ]_vars

\* An id that is not in the table although contexts carry it: one of a run that
\* has returned, and one of a run that was cancelled and is still executing.
C12_Witness ==
    \E r1, r2 \in Runs :
        /\ Returned(r1) /\ ~Has(active_executions, ctx[r1].execution_id)
        /\ ~Returned(r2) /\ ctx[r2].end_time # << >>
        /\ ~Has(active_executions, ctx[r2].execution_id)

---------------------------------------------------------------------------
\* Vocabulary of the properties of the bus.

\* The call of execute_coordinated_task returns in this step.
TaskReturns == coordination.pc = "wait" /\ coordination'.pc = "returned"

Participants == coordination.participating_agents

\* The responses collected from the participant.
ResponsesOf(agent_name) ==
    SelectSeq(coordination.responses, LAMBDA m : m.sender = agent_name)

\* Every message addressed to a participant has triggered a run of it, and
\* every such run has returned and been answered.
ParticipantsAnswered ==
    /\ \A k \in 1..Len(conversation_history) :
           InSeq(Participants, conversation_history[k].recipient) =>
               delivery[k] = "handled"
    /\ \A l \in 1..Len(loops) : loops[l].pc # "handling"

\* C13: a message sent to an agent that has been in the active pool, with its
\* consumption loop running, ever since, is handled by that agent's executor:
\* it is never taken off the queue by another reader (the loop of another
\* agent, or the wait of a coordinated task) and dropped.
C13_MessageToActiveAgentIsHandled ==
    \A k \in 1..Len(delivery) : delivery[k] # "lost"

\* C14: when execute_coordinated_task returns without its wait having timed
\* out, the collected responses hold exactly one response of each participant.
C14_EachParticipantObservedOnce ==
    (coordination.pc = "returned" /\ ~coordination.timed_out) =>
        \A j \in 1..Len(Participants) : Len(ResponsesOf(Participants[j])) = 1

\* C15: the wait of execute_coordinated_task ends no later than one timeout
\* after it started, whatever arrives on the queue meanwhile.
C15_WaitBoundedByOneTimeout ==
    /\ coordination.pc = "wait" => bus_now <= coordination.started + timeout
    /\ coordination.pc = "returned" =>
           coordination.completed_at <= coordination.started + timeout

\* C16: a coordinated task with two registered participants, which had the
\* time to answer whatever was addressed to them, returns with exactly two
\* matching responses, and with both participants out of the pool.
C16_TwoParticipantsTwoResponses ==
    [][ ( /\ TaskReturns
          /\ Len(Participants) = 2
          /\ \A j \in 1..2 : start_agent_returns(Participants[j])
          /\ ParticipantsAnswered ) =>
        /\ Len(coordination'.responses) = 2
        /\ \A k \in 1..2 : Matches(coordination, coordination'.responses[k])
        /\ \A j \in 1..2 : ~InSeq(active_agents', Participants[j]) ]_bus

\* C17: execute_coordinated_task terminates and does not raise on timeout; a
\* call that is to wait zero seconds, with no message on the bus but its own
\* task message, returns at once with zero responses: it is never found
\* waiting after the clock has advanced.
C17_NothingToCollectReturnsPromptly ==
    (coordination.pc = "wait" /\ Len(conversation_history) = 1) =>
        bus_now = coordination.started

\* C18: when execute_coordinated_task returns, by completion or by timeout,
\* none of its participants is in the active pool.
C18_ParticipantsStoppedAtReturn ==
    [][ TaskReturns =>
            \A j \in 1..Len(Participants) :
                ~InSeq(active_agents', Participants[j]) ]_bus

\* A call that returned by timeout with one response, while a loop of one of
\* its participants has not ended yet.
C18_Witness ==
    /\ coordination.pc = "returned"
    /\ coordination.timed_out
    /\ Len(coordination.responses) = 1
    /\ \E l \in 1..Len(loops) : loops[l].stopped

\* C19: after stop_agent the consumption loop of the agent handles no further
\* message (it triggers no run), also when the agent is started again before
\* the loop's next poll.
C19_StoppedLoopHandlesNothing ==
    [][ \A l \in 1..Len(loops) :
            (loops[l].stopped /\ process_agent_messages(l)) =>
                ~(Len(loops') = Len(loops) /\ loops'[l].pc = "handling") ]_bus

\* C20: whatever the operation, the conversation history only grows at its
\* end, by exactly the messages the operation puts on the queue, in the
\* order it puts them; it holds every message sent exactly once.
C20_HistoryIsAppendOnly ==
    [][ LET n == Len(conversation_history)
        IN  /\ Len(conversation_history') >= n
            /\ SubSeq(conversation_history', 1, n) = conversation_history
            /\ SubSeq(conversation_history', n + 1, Len(conversation_history')) =
                   SelectSeq(message_queue', LAMBDA m : m.object > n)
            /\ \A k \in 1..Len(conversation_history') :
                   conversation_history'[k].object = k ]_bus

\* A history of a caller's message, the reply to it and a broadcast message,
\* after a shutdown that emptied the queue.
C20_Witness ==
    /\ Len(conversation_history) = 3
    /\ \E k \in 1..3 : conversation_history[k].message_type = "response"
    /\ \E k \in 1..3 : delivery[k] = "cleared"
    /\ message_queue = << >>

\* C21: broadcast_message sends exactly one message to every agent of the
\* active pool other than the sender, in the order of the pool, and to no one
\* else; the number it returns is the number of messages sent, which is the
\* number of active agents other than the sender; the conversation history
\* and the queue grow by exactly these messages, and the pool is unchanged.
C21_BroadcastReachesEveryOtherAgent ==
    [][ \A s \in BroadcastSenders :
            broadcast_message(s) =>
                LET n == Len(conversation_history)
                    others == SelectSeq(active_agents, LAMBDA a : a # s)
                    sent == SubSeq(conversation_history', n + 1,
                                   Len(conversation_history'))
                IN  /\ broadcast_message_returns(s) = Len(sent)
                    /\ Len(sent) = Cardinality({k \in 1..Len(active_agents) :
                                                    active_agents[k] # s})
                    /\ Len(sent) = Len(others)
                    /\ \A j \in 1..Len(sent) :
                           /\ sent[j].sender = s
                           /\ sent[j].recipient = others[j]
                    /\ SubSeq(conversation_history', 1, n) = conversation_history
                    /\ message_queue' = message_queue \o sent
                    /\ active_agents' = active_agents ]_bus

\* A broadcast of 'hidden' to a pool of two agents, which put two messages on
\* the bus.
C21_Witness ==
    /\ Len(active_agents) = 2
    /\ Len(conversation_history) = 3
    /\ conversation_history[2].content = Str("broadcast")
    /\ conversation_history[3].content = Str("broadcast")
    /\ conversation_history[2].recipient # conversation_history[3].recipient
    /\ conversation_history[2].sender = "hidden"

\* C22: what the capabilities of a run wrote to its environment and hidden
\* environment before the deadline elapsed is still there after the run ended
\* with TIMEOUT: the timeout path changes nothing of the context but its end
\* time and its step log, and nothing changes them after the run returned.
C22_TimeoutKeepsEnvironment ==
    [][ \A r \in Runs :
            /\ wait_for_timeout(r) =>
                   /\ TimedOut(r)'
                   /\ ctx'[r].hidden_environment = ctx[r].hidden_environment
                   /\ ctx'[r].environment = ctx[r].environment
            /\ TimedOut(r) =>
                   /\ ctx'[r].hidden_environment = ctx[r].hidden_environment
                   /\ ctx'[r].environment = ctx[r].environment ]_vars

\* A run that timed out inside its third capability after its second one had
\* written the key 'unlock': the key is still in its hidden environment.
C22_Witness ==
    \E r \in Runs :
        /\ TimedOut(r)
        /\ Len(invoked[r]) = 2
        /\ invoked[r][1].trace.writes # {}
        /\ invoked[r][2].trace = Pending
        /\ Has(ctx[r].hidden_environment, "unlock")

---------------------------------------------------------------------------
\* Vocabulary of the properties of the capabilities.

\* The latest call was a call of `tool`.
Called(tool) == last_call.tool = tool

\* The numbers of a list all of whose elements are numbers.
Given(l) == [k \in 1..Len(l) |-> l[k].num]

RECURSIVE Total(_)
Total(ns) == IF ns = << >> THEN 0 ELSE ns[1] + Total(Tail(ns))

RECURSIVE Product(_)
Product(ns) == IF ns = << >> THEN 1 ELSE ns[1] * Product(Tail(ns))

\* The float is the integer n.
IsInteger(value, n) == value.d = 1 /\ value.n = n

\* The sequence is one Error and then ends.
OneErrorOnly(trace) == trace = Trace(<<Error>>, "stop", {})

\* The result groups the environment holds: the (capability name, result name)
\* pairs of every capability but the reserved key.
ResultGroups(env) ==
    UNION { { <<env[j][1], env[j][2][k][1]>> : k \in 1..Len(env[j][2]) } :
                j \in {i \in 1..Len(env) : env[i][1] # "SelfInfo"} }

\* C23: the hidden-key conditional capability is available if and only if the
\* key 'unlock' is present in the hidden environment when the predicate is
\* evaluated, whatever else the hidden environment holds and whatever value
\* is stored under 'unlock' (None included).
C23_AvailableIffUnlockKeyPresent ==
    Called("is_tool_available") =>
        (last_call.available <=>
             \E p \in tree_data.hidden_environment : p[1] = "unlock")

\* The predicate was evaluated, and held, on a hidden environment that has
\* another key and stores None under 'unlock'.
C23_Witness ==
    /\ Called("is_tool_available")
    /\ last_call.available
    /\ <<"unlock", NoneObj>> \in tree_data.hidden_environment
    /\ Has(tree_data.hidden_environment, "other")

\* C24: the Result of the environment summary never lists 'SelfInfo' as a
\* result group and lists exactly one group per (capability name, result
\* name) pair of every other capability, and no other group.
C24_SummaryNeverListsReservedKey ==
    Called("EnvironmentSummary") =>
        LET results == Results(last_call.trace.events)
            objects == results[1].objects
            listed == {k \in 1..Len(objects) : "tool" \in DOMAIN objects[k]}
        IN  /\ Len(results) = 1
            /\ last_call.trace.end = "stop"
            /\ \A k \in listed :
                   /\ objects[k].tool # "SelfInfo"
                   /\ <<objects[k].tool, objects[k].result_name>>
                          \in ResultGroups(tree_data.environment)
            /\ \A g \in ResultGroups(tree_data.environment) :
                   Cardinality({k \in listed : /\ objects[k].tool = g[1]
                                               /\ objects[k].result_name = g[2]}) = 1

\* The summary of an environment that holds result groups under 'SelfInfo'
\* and two result groups of another capability: two groups are listed.
C24_Witness ==
    /\ Called("EnvironmentSummary")
    /\ \E j \in 1..Len(tree_data.environment) :
           /\ tree_data.environment[j][1] = "SelfInfo"
           /\ tree_data.environment[j][2] # << >>
    /\ Cardinality(ResultGroups(tree_data.environment)) = 2
    /\ Len(Results(last_call.trace.events)[1].objects) = 2

\* C25: called with a list of numbers and the operation sum, product or mean,
\* the aggregation capability yields one Result whose value is their sum,
\* product or mean (sum of [1,2,3] = 6, product of [1,2,3] = 6, mean of
\* [2,4] = 3); called with an unsupported operation name, with an element
\* that is no number, or with no numbers at all (as a list or as a string),
\* it yields exactly one Error, no Result, and ends.
C25_AggregationValuesAndErrors ==
    (/\ Called("SafeMath")
     /\ Has(tool_inputs, "numbers") /\ Has(tool_inputs, "operation")
     /\ "str" \in DOMAIN Get(tool_inputs, "operation"))
    =>
        LET raw == Get(tool_inputs, "numbers")
            op == Get(tool_inputs, "operation").str
            trace == last_call.trace
            results == Results(trace.events)
            value == results[1].objects[1].value
        IN  /\ ("list" \in DOMAIN raw) =>
                   LET l == raw.list
                       numeric == \A k \in 1..Len(l) : "num" \in DOMAIN l[k]
                       convertible ==
                           \A k \in 1..Len(l) :
                               "num" \in DOMAIN l[k] \/ l[k] = Chars(<<"2">>)
                   IN  /\ (l # << >> /\ numeric /\ op \in {"sum", "product", "mean"}) =>
                              /\ trace.end = "stop"
                              /\ Len(results) = 1
                              /\ Count(trace.events, Error) = 0
                              /\ results[1].objects[1].count = Len(l)
                              /\ op = "sum" => IsInteger(value, Total(Given(l)))
                              /\ op = "product" => IsInteger(value, Product(Given(l)))
                              /\ op = "mean" =>
                                     /\ value.d > 0
                                     /\ value.n * Len(l) = Total(Given(l)) * value.d
                       /\ (l = <<Num(1), Num(2), Num(3)>> /\ op \in {"sum", "product"}) =>
                              IsInteger(value, 6)
                       /\ (l = <<Num(2), Num(4)>> /\ op = "mean") => IsInteger(value, 3)
                       /\ (l # << >> /\ convertible /\ op = "median") =>
                              OneErrorOnly(trace)
                       /\ ~convertible => OneErrorOnly(trace)
                       /\ l = << >> => OneErrorOnly(trace)
            /\ ("chars" \in DOMAIN raw) =>
                   /\ InSeq(raw.chars, "x") => OneErrorOnly(trace)
                   /\ (\A k \in 1..Len(raw.chars) : raw.chars[k] \notin Digits) =>
                          OneErrorOnly(trace)
                   /\ op = "median" => OneErrorOnly(trace)

\* The mean of [2, 4] was computed: one Result, of value 3 over 2 numbers.
C25_Witness ==
    /\ Called("SafeMath")
    /\ tool_inputs = {<<"numbers", List(<<Num(2), Num(4)>>)>>, <<"operation", Str("mean")>>}
    /\ Len(Results(last_call.trace.events)) = 1
    /\ Results(last_call.trace.events)[1].objects[1].value = [n |-> 3, d |-> 1]

---------------------------------------------------------------------------
\* The invocation's sequence ended by raising, or normally after yielding
\* Error events only.
Failed(i) ==
    \/ i.trace.end = "raise"
    \/ /\ i.trace.end = "stop"
       /\ i.trace.events # << >>
       /\ \A k \in 1..Len(i.trace.events) : i.trace.events[k].kind = "Error"

\* The step log of the run has a step that records a failure of the capability.
FailureLogged(r, tool) ==
    \E k \in 1..Len(ctx[r].steps) :
        /\ ctx[r].steps[k].type = "tool_error"
        /\ ctx[r].steps[k].data.tool = tool

\* C26: for every capability of a run that raised or that yielded only Error
\* events, the step log of the run has a step recording that capability's
\* failure.
C26_FailedCapabilityIsLogged ==
    \A r \in Runs :
        \A j \in 1..Len(invoked[r]) :
            Failed(invoked[r][j]) => FailureLogged(r, invoked[r][j].tool)

---------------------------------------------------------------------------
\* The Message object numbered n is on the queue.
OnQueue(queue, n) == \E k \in 1..Len(queue) : queue[k].object = n

\* The consumers that hold the Message object numbered n: the loops handling
\* it and the coordinated task that collected it.
Holders(n) ==
    Cardinality({l \in 1..Len(loops) :
                     loops[l].pc = "handling" /\ loops[l].message.object = n})
    + Cardinality({k \in 1..Len(coordination.responses) :
                       coordination.responses[k].object = n})

\* C27: a queue read removes the message for exactly one consumer.  A
\* message is on the queue at most once and exactly as long as no reader took
\* it; a message on the queue is held by no consumer and a message taken by
\* at most one; once taken, it is never on the queue again and what became of
\* it (handled, collected, dropped by a reader it did not match) never
\* changes.
C27_ReadRemovesMessageForOneConsumer ==
    [][ \A n \in 1..Len(conversation_history) :
            /\ Cardinality({k \in 1..Len(message_queue) :
                                message_queue[k].object = n}) <= 1
            /\ OnQueue(message_queue, n) <=> delivery[n] \in {"queued", "waiting"}
            /\ OnQueue(message_queue, n) => Holders(n) = 0
            /\ Holders(n) <= 1
            /\ ~OnQueue(message_queue, n) =>
                   /\ ~OnQueue(message_queue', n)
                   /\ delivery'[n] = delivery[n] ]_bus

\* One message was taken and dropped by a reader it did not match, another
\* was taken by the loop of its recipient, and a third is still on the queue.
C27_Witness ==
    \E n, m, k \in 1..Len(conversation_history) :
        /\ delivery[n] \in {"lost", "discarded"}
        /\ delivery[m] = "handled"
        /\ OnQueue(message_queue, k)

---------------------------------------------------------------------------
\* The call of execute_coordinated_task appended the task message to history
\* and queue: one message, from 'system' to the coordinator, of type 'task',
\* carrying the task description and the participants.
OneTaskMessageSent(task_description, participating_agents, coordinator_agent) ==
    LET n == Len(conversation_history) + 1
    IN  /\ Len(conversation_history') = n
        /\ SubSeq(conversation_history', 1, n - 1) = conversation_history
        /\ message_queue' = Append(message_queue, conversation_history'[n])
        /\ conversation_history'[n].sender = "system"
        /\ conversation_history'[n].recipient = coordinator_agent
        /\ conversation_history'[n].message_type = "task"
        /\ conversation_history'[n].content = [coordinate |-> task_description]
        /\ conversation_history'[n].metadata.participants = participating_agents
        \* sent when its recipient, if a participant, was already started
        /\ InSeq(participating_agents, coordinator_agent) => delivery'[n] = "queued"

\* The call started a consumption loop for the agent.
LoopStarted(agent_name) ==
    /\ InSeq(active_agents', agent_name)
    /\ \E l \in (Len(loops) + 1)..Len(loops') : loops'[l] = Loop(agent_name)

\* C28: execute_coordinated_task first starts the consumption loop of every
\* participant and only then enqueues exactly one message, from 'system' to
\* the coordinator, of type 'task', carrying the task description and the
\* participant set; the rest of the call enqueues no message.
C28_LoopsStartedThenOneTaskMessage ==
    [][ /\ \A q \in CoordinationRequests :
               execute_coordinated_task(q[1], q[2], q[3]) =>
                   /\ \A j \in 1..Len(q[2]) : LoopStarted(q[2][j])
                   /\ OneTaskMessageSent(q[1], q[2], q[3])
        /\ (coordination_gets \/ coordination_times_out) =>
               conversation_history' = conversation_history ]_bus

\* The same for the participants that name a registered agent.
LoopsOfRegisteredStartedThenOneTaskMessage ==
    [][ /\ \A q \in CoordinationRequests :
               execute_coordinated_task(q[1], q[2], q[3]) =>
                   /\ \A j \in 1..Len(q[2]) :
                          IF get_agent(q[2][j]).found THEN LoopStarted(q[2][j])
                          ELSE ~InSeq(active_agents', q[2][j])
                   /\ Len(loops') =
                          Len(loops) + Cardinality({j \in 1..Len(q[2]) :
                                                        get_agent(q[2][j]).found})
                   /\ OneTaskMessageSent(q[1], q[2], q[3])
        /\ (coordination_gets \/ coordination_times_out) =>
               conversation_history' = conversation_history ]_bus

---------------------------------------------------------------------------
\* C29: every message in the responses of execute_coordinated_task, while it
\* collects and when it has returned, has its sender among the participants
\* and the coordinator as its recipient, is a message that was sent on the
\* bus (it is in the conversation history, sent no later than the call
\* ended) and was taken off the queue by the call, once; and the responses
\* are never more than the participants.
C29_ResponsesAreMatchingSentMessages ==
    /\ Len(coordination.responses) <= Len(coordination.participating_agents)
    /\ \A k \in 1..Len(coordination.responses) :
           LET m == coordination.responses[k]
           IN  /\ \E j \in 1..Len(coordination.participating_agents) :
                      coordination.participating_agents[j] = m.sender
               /\ m.recipient = coordination.coordinator_agent
               /\ m.object \in 1..Len(conversation_history)
               /\ conversation_history[m.object] = m
               /\ m.timestamp <= bus_now
               /\ delivery[m.object] = "collected"
               /\ ~OnQueue(message_queue, m.object)
               /\ \A j \in 1..Len(coordination.responses) :
                      coordination.responses[j].object = m.object => j = k

\* The call has returned with a response it collected.
C29_Witness ==
    /\ coordination.pc = "returned"
    /\ coordination.responses # << >>

---------------------------------------------------------------------------
\* The steps of the run's log that record an event of the capability: every
\* step about the capability but the one logged before it was called.
EventSteps(r, tool) ==
    SelectSeq(ctx[r].steps,
              LAMBDA st : /\ st.type \in {"tool_result", "tool_error"}
                          /\ st.data.tool = tool)

\* C30: when the event sequence of a capability has been consumed, the step
\* log of the run holds one step for every event the capability yielded
\* (each Status, each Result and each Error).
C30_OneStepPerEvent ==
    \A r \in Runs :
        \A j \in 1..Len(invoked[r]) :
            invoked[r][j].trace.end = "stop" =>
                Len(EventSteps(r, invoked[r][j].tool))
                    = Len(invoked[r][j].trace.events)

---------------------------------------------------------------------------
\* The consumption loops of the agent whose task has not ended.
LoopsOf(agent_name) == {l \in 1..Len(loops) : loops[l].agent_name = agent_name}

\* C32: at every moment each agent has at most one live consumption loop,
\* and exactly one while it is in the active pool.
C32_OneLoopPerAgent ==
    \A a \in {loops[l].agent_name : l \in 1..Len(loops)}
             \cup {active_agents[k] : k \in 1..Len(active_agents)} :
        /\ Cardinality(LoopsOf(a)) <= 1
        /\ InSeq(active_agents, a) => Cardinality(LoopsOf(a)) = 1

---------------------------------------------------------------------------
\* The context of run r is in the history list.
Archived(history, r) == \E k \in 1..Len(history) : history[k] = r

\* The context is finalized: its end time is set and the last entry of its
\* step log is a completion step.
Finalized(c) ==
    /\ c.end_time # << >>
    /\ c.steps # << >>
    /\ c.steps[Len(c.steps)].type = "completion"

\* C36: every context in the history list is finalized, and no step is
\* appended to a context once it is in the history list, on every path into
\* the history.
C36_ArchivedContextIsFinalized ==
    [][ \A r \in 1..Len(ctx') :
            /\ Archived(execution_history', r) => Finalized(ctx'[r])
            /\ (r \in Runs /\ Archived(execution_history, r)) =>
                   ctx'[r] = ctx[r] ]_vars

\* What does hold: an archived context is never changed again.
ArchivedContextIsFrozen ==
    [][ \A r \in Runs : Archived(execution_history, r) => ctx'[r] = ctx[r] ]_vars

\* What does hold: a context archived by a call of execute_agent that returned
\* a payload is finalized.
ReturnedContextIsFinalized ==
    \A r \in Runs :
        (Archived(execution_history, r) /\ coro[r].ret.status # "raised") =>
            Finalized(ctx[r])

---------------------------------------------------------------------------
\* The step log of the run has a tool_result step of the capability.
ResultLogged(r, tool) ==
    \E k \in 1..Len(ctx[r].steps) :
        /\ ctx[r].steps[k].type = "tool_result"
        /\ ctx[r].steps[k].data.tool = tool

\* C37: a Result is honoured only if the sequence of its capability ends
\* without raising.  For a capability that raised, whatever it had yielded
\* before: a tool_error step is logged for it and no tool_result step, the
\* payload of the run is not its Result, and the next declared capability is
\* the next one constructed and invoked.
C37_ResultBeforeRaiseIsDiscarded ==
    \A r \in Runs :
        \A j \in 1..Len(invoked[r]) :
            LET i == invoked[r][j]
            IN  i.trace.end = "raise" =>
                    /\ FailureLogged(r, i.tool)
                    /\ ~ResultLogged(r, i.tool)
                    /\ \A k \in 1..Len(Results(i.trace.events)) :
                           (Returned(r) /\ coro[r].ret.status = "completed") =>
                               coro[r].ret.result
                                   # result_value(Results(i.trace.events)[k])
                    /\ i.index < Len(Declared(r)) =>
                           \/ CtorRaises(Declared(r)[i.index + 1])
                           \/ /\ Len(invoked[r]) > j
                              /\ invoked[r][j + 1].index = i.index + 1

\* A capability yielded a Result and then raised, and the run went on to the
\* next declared capability.
C37_Witness ==
    \E r \in Runs :
        \E j \in 1..Len(invoked[r]) :
            /\ invoked[r][j].trace.end = "raise"
            /\ Results(invoked[r][j].trace.events) # << >>
            /\ Len(invoked[r]) > j

---------------------------------------------------------------------------
\* What the invocations 1..n of the run wrote to the hidden environment.
RECURSIVE Written(_, _)
Written(invs, n) ==
    IF n = 0 THEN {}
    ELSE {p \in Written(invs, n - 1) : p[1] \notin Keys(invs[n].trace.writes)}
             \cup invs[n].trace.writes

\* C38: every run has an environment and a hidden environment of its own,
\* empty at its start: at every moment they hold exactly what the capabilities
\* of this run wrote, and a capability of the run sees the key 'unlock' if and
\* only if a capability of the same run wrote it before.
C38_EnvironmentIsPerRun ==
    \A r \in Runs :
        /\ ctx[r].environment = << >>
        /\ ctx[r].hidden_environment = Written(invoked[r], Len(invoked[r]))
        /\ \A j \in 1..Len(invoked[r]) :
               invoked[r][j].tool = "HiddenStoreConditionalTool" =>
                   /\ invoked[r][j].available
                          <=> Has(Written(invoked[r], j - 1), "unlock")
                   /\ (Results(invoked[r][j].trace.events) # << >>)
                          <=> Has(Written(invoked[r], j - 1), "unlock")

\* A run wrote 'unlock' to its hidden environment and ended; a later run called
\* the capability that reads 'unlock' and found nothing.
C38_Witness ==
    \E r1, r2 \in Runs :
        /\ r1 < r2
        /\ Returned(r1)
        /\ Has(ctx[r1].hidden_environment, "unlock")
        /\ ctx[r1].end_time # << >>
        /\ ctx[r1].end_time[1] <= ctx[r2].start_time
        /\ \E j \in 1..Len(invoked[r2]) :
               /\ invoked[r2][j].tool = "HiddenStoreConditionalTool"
               /\ ~invoked[r2][j].available
               /\ invoked[r2][j].trace.events = <<Error>>

----------------------------------------------------------------------------
\* The capability objects the runs have called, as (run, call) pairs.
Calls == {p \in (1..Len(invoked)) \X (1..3) : p[2] <= Len(invoked[p[1]])}

\* No declared capability of the run was invoked twice.
AtMostOnce(r) ==
    \A j, k \in 1..Len(invoked[r]) :
        invoked[r][j].index = invoked[r][k].index => j = k

\* No two calls, of one run or of two, were made on the same object.
FreshInstances ==
    \A p, q \in Calls :
        invoked[p[1]][p[2]].instance = invoked[q[1]][q[2]].instance => p = q

\* C39: the dispatch loop of every run terminates (the run returns), it
\* invokes each declared capability at most once, in positions of the agent's
\* declared list, and every invocation is made on an object of its own, shared
\* with no other invocation of this or another run.
C39_DispatchLoopTerminates ==
    /\ [](FreshInstances /\ \A r \in Runs : AtMostOnce(r) /\ DeclaredOrder(r))
    /\ \A r \in 1..MaxRuns : (r \in Runs) ~> (r \in Runs /\ Returned(r))

\* Two runs of the agent with three capabilities have returned, each having
\* invoked all three.
C39_Witness ==
    /\ Len(ctx) = 2
    /\ \A r \in 1..2 : Returned(r) /\ Len(invoked[r]) = 3

\* What Ready stands for.
ReadyIsEnabled ==
    \A r \in 1..MaxRuns : Ready(r) <=> ENABLED <<Scheduled(r)>>_<<vars, bus, tools, flow>>

----------------------------------------------------------------------------
\* The messages the loops are handling (each awaits the run of its agent).
Handling == {loops[l].message : l \in {k \in 1..Len(loops) : loops[k].pc = "handling"}}

\* The agent whose loop is handling the message.
Handler(m) ==
    LET l == CHOOSE k \in 1..Len(loops) :
                 loops[k].pc = "handling" /\ loops[k].message = m
    IN  loops[l].agent_name

\* The message is a reply to the message m handled by the agent: a response
\* of the agent or an error of 'system', to m's sender, carrying m's id.
ReplyTo(reply, m, agent_name) ==
    /\ reply.recipient = m.sender
    /\ reply.metadata = [original_message_id |-> message_id(m)]
    /\ \/ reply.message_type = "response" /\ reply.sender = agent_name
       \/ reply.message_type = "error" /\ reply.sender = "system"

\* Exactly one message is sent in the step.
OneSent ==
    /\ Len(conversation_history') = Len(conversation_history) + 1
    /\ SubSeq(conversation_history', 1, Len(conversation_history)) =
           conversation_history
    /\ message_queue' =
           Append(message_queue, conversation_history'[Len(conversation_history')])

\* C35: a message being handled stays so until, in one step, exactly one
\* message is sent that is its reply (a response of the handling agent or an
\* error of 'system', to the original sender, with the original id), and no
\* response or error is sent in any other way; a message a loop pulled for
\* an agent no longer in the pool is in that step neither handled nor replied
\* to.
C35_HandlingSendsOneReply ==
    [][ /\ \A m \in Handling :
              \/ m \in Handling' /\ Handler(m)' = Handler(m)
              \/ /\ OneSent
                 /\ ReplyTo(conversation_history'[Len(conversation_history')],
                            m, Handler(m))
                 /\ Handling' = Handling \ {m}
        /\ \A k \in (Len(conversation_history) + 1)..Len(conversation_history') :
              conversation_history'[k].message_type \in {"response", "error"} =>
                  \E m \in Handling :
                      ReplyTo(conversation_history'[k], m, Handler(m))
        /\ \A o \in 1..Len(delivery) :
              (delivery'[o] = "unhandled" /\ delivery[o] # "unhandled") =>
                  /\ conversation_history' = conversation_history
                  /\ Handling' = Handling
      ]_bus

\* A reply has been sent to the sender of a message that was handled, and
\* another message was pulled for an agent no longer in the pool.
C35_Witness ==
    /\ \E j, k \in 1..Len(conversation_history) :
           /\ j < k
           /\ delivery[j] = "handled"
           /\ conversation_history[k].message_type \in {"response", "error"}
           /\ conversation_history[k].recipient = conversation_history[j].sender
           /\ conversation_history[k].metadata =
                  [original_message_id |-> message_id(conversation_history[j])]
    /\ \E o \in 1..Len(delivery) : delivery[o] = "unhandled"

----------------------------------------------------------------------------
\* C33: the task message of a coordinated task is handled by the coordinator:
\* no reader of the queue takes it off without the coordinator's run (stated
\* as the safety part: a message taken off the queue is never read again, so
\* a task message a reader has dropped is never handled).
C33_TaskMessageIsNotDropped ==
    \A k \in 1..Len(conversation_history) :
        conversation_history[k].message_type = "task" =>
            delivery[k] \notin {"lost", "discarded", "unhandled"}

----------------------------------------------------------------------------
\* C34: the automatic replies do not trigger further replies: no loop runs
\* its agent on a reply (a response or an error), which it would answer with
\* one more reply when the run is over.
C34_RepliesAreNotAnswered ==
    \A l \in 1..Len(loops) :
        loops[l].pc = "handling" =>
            loops[l].message.message_type \notin {"response", "error"}

----------------------------------------------------------------------------
\* C40: once shutdown has returned, the pool and the queue are empty and stay
\* so as long as the caller neither starts an agent nor sends a message.
C40_ShutDownStaysEmpty ==
    shut_down => active_agents = << >> /\ message_queue = << >>

\* shutdown itself leaves the pool and the queue empty and the history as it
\* was.
ShutdownEmpties ==
    [][ (shut_down' /\ ~shut_down) =>
            /\ active_agents' = << >>
            /\ message_queue' = << >>
            /\ conversation_history' = conversation_history ]_bus

----------------------------------------------------------------------------
\* The message is the task message of the coordinated task of the step.
TaskMessageOf(m, step) ==
    /\ m.message_type = "task"
    /\ m.sender = "system"
    /\ m.recipient = step.coordinator
    /\ m.content = [coordinate |-> step.description]
    /\ m.metadata = [task_type |-> "coordination", participants |-> step.agents]

\* The entry of the step in the list of completed steps.
EntryOf(entry, step) ==
    /\ entry.step = step.name
    /\ entry.results.task = step.description
    /\ entry.results.coordinator = step.coordinator
    /\ entry.results.participants = step.agents

\* C31: execute_workflow runs the steps one after the other in the declared
\* order, one coordinated task per step: a task message is sent only as the
\* one of the next step of the list, when the coordinated tasks of all steps
\* before it have returned and are recorded; the entries are recorded in the
\* order of the steps, and the call returns one entry per step; for an unknown
\* name the call returns the error and leaves the orchestrator as it was.
C31_StepsRunInOrder ==
    [][ /\ \A k \in (Len(conversation_history) + 1)..Len(conversation_history') :
              conversation_history'[k].message_type = "task" =>
                  /\ Len(conversation_history') = Len(conversation_history) + 1
                  /\ workflow'.pc = "step"
                  /\ workflow'.i = workflow.i + 1
                  /\ Len(workflow'.results) = workflow.i
                  /\ workflow.i > 0 => coordination.pc = "wait"
                  /\ TaskMessageOf(conversation_history'[k],
                                   workflow'.steps[workflow'.i])
        /\ workflow'.results # workflow.results =>
              /\ workflow.pc = "step"
              /\ Len(workflow'.results) = workflow.i
              /\ SubSeq(workflow'.results, 1, workflow.i - 1) = workflow.results
              /\ EntryOf(workflow'.results[workflow.i], workflow.steps[workflow.i])
        /\ (workflow'.pc = "returned" /\ workflow.pc # "returned") =>
              IF Has(workflows, workflow'.workflow_name)
              THEN LET steps == Get(workflows, workflow'.workflow_name).steps
                       completed_steps == workflow'.ret.completed_steps
                   IN  /\ workflow'.ret.workflow = workflow'.workflow_name
                       /\ Len(completed_steps) = Len(steps)
                       /\ \A k \in 1..Len(steps) :
                              EntryOf(completed_steps[k], steps[k])
              ELSE /\ workflow'.ret = [error |-> "Workflow not found"]
                   /\ UNCHANGED bus
      ]_<<bus, flow>>

\* The workflow of two steps has returned.
C31_Witness ==
    /\ workflow.pc = "returned"
    /\ Len(workflow.steps) = 2
    /\ Len(workflow.ret.completed_steps) = 2

\* A call with a name that was never defined has returned the error.
UnknownWorkflowReturned ==
    workflow.pc = "returned" /\ workflow.ret = [error |-> "Workflow not found"]

====
